---- MODULE Spec2Model ----
(***************************************************************************)
(* View8 (jsc2js): the disassembly parser (Parser/sfi_file_parser.py), the  *)
(* FixedArray prescan, the jump-block engine                               *)
(* (Translate/jump_blocks.py), the decompile loop (view8.py) and the       *)
(* simplifier (Simplify/simplify.py), as state machines.                   *)
(*                                                                         *)
(* The specifications of the module:                                       *)
(*   SpecParse     parse_file over a line source with one line of pushback *)
(*   SpecFA        collect_fixed_arrays followed by constant resolution    *)
(*   SpecJump      JumpBlocks.convert over an instruction list and edges   *)
(*   SpecRegion    the same over the contiguous offsets the parser hands   *)
(*                 over, placeholder lines and a try region included       *)
(*   SpecSimplify  decompile and simplify_all_in_scope_order over corpora  *)
(*                 that vary in the text of their functions                *)
(*   SpecScope     the same, twice, over corpora that vary in their scope  *)
(*                 addresses                                               *)
(*   SpecLoop      convert over a loop and two more edges                  *)
(*   SpecIf        convert over chains of conditional edges                *)
(*   SpecBlocks    the simplifier over functions with nested blocks        *)
(*   SpecResolve   the simplifier over scope expressions that may not      *)
(*                 resolve                                                 *)
(*   SpecAgain     two runs of main in one process                         *)
(***************************************************************************)
EXTENDS Integers, Sequences, FiniteSets, TLC

VARIABLES
    \* ---- parser (sfi_file_parser.py) ----
    gen,               \* where get_next_line is suspended
    cur,               \* the generator's local `line`
    nread,             \* raw lines consumed from the file so far
    dialect,           \* the vocabulary of the file being parsed
    repeat_last_line,  \* the module global of the same name
    stack,             \* active calls, innermost last
    all_functions,     \* the registry, in insertion order
    obs,               \* observations of the last source operation (history)
    \* ---- prescan (collect_fixed_arrays) ----
    fa_lines,          \* the file handed to the prescan
    fa_i,              \* its index i (0-based), or -1 when the scan is over
    FIXED_ARRAYS,      \* address -> dense array
    fa_out,            \* constants resolved after the prescan
    \* ---- reconstruction (JumpBlocks) ----
    jump_blocks,       \* the JumpBlocks object: offsets, texts, jump objects, tables
    jump_list,         \* convert's local jump_list
    pc,                \* where convert is
    code_list,         \* the expanded code_list
    registered,        \* the edges the translator registered (history)
    \* ---- simplification (view8.py, Simplify/simplify.py) ----
    corpus,            \* the function records the run starts from (history)
    SCOPEINFO_PARENT,  \* scope address -> outer scope address
    SCOPE_CTXID,       \* scope address -> id
    SCOPEINFO_INIT,    \* the module global _SCOPEINFO_INIT
    SCOPE_SLOT_ENV,    \* <<id, slot>> -> the text recorded for the slot
    function_context_stack,  \* the legacy ContextStack object
    spc,               \* where the run is: the loop, the function, the pass
    simpl,             \* the SimplifyCode object and the blocks it is in
    hist               \* what the run did, in order (history)

pvars == <<gen, cur, nread, dialect, repeat_last_line, stack, all_functions, obs>>
fvars == <<fa_lines, fa_i, FIXED_ARRAYS, fa_out>>
jvars == <<jump_blocks, jump_list, pc, code_list, registered>>
svars == <<corpus, SCOPEINFO_PARENT, SCOPE_CTXID, SCOPEINFO_INIT, SCOPE_SLOT_ENV,
           function_context_stack, spc, simpl, hist>>
vars == <<pvars, fvars, jvars, svars>>

----------------------------------------------------------------------------
(* Bounds *)
MaxLines == 6      \* lines of the parsed file
MaxPool == 2       \* largest declared constant-pool size

----------------------------------------------------------------------------
(* Small helpers *)
Max(a, b) == IF a >= b THEN a ELSE b
Min(a, b) == IF a <= b THEN a ELSE b
Last(s) == s[Len(s)]
Front(s) == SubSeq(s, 1, Len(s) - 1)
Range(s) == {s[i] : i \in 1..Len(s)}

\* Optional values: Python's None is <<>>, a value x is <<x>>.
None == <<>>
Some(x) == <<x>>
IsNone(o) == Len(o) = 0

----------------------------------------------------------------------------
(* Lines of the dump, by the tests the parser applies to them.             *)
(*   k  the line's kind       a, b, c  its numbers       s  its text       *)
Ln(k, a, b, c, s) == [k |-> k, a |-> a, b |-> b, c |-> c, s |-> s]

NoneLine == Ln("None", 0, 0, 0, "")                  \* the end-of-input sentinel
StopIteration == Ln("StopIteration", 0, 0, 0, "")    \* next() on a finished generator

\* Function identities: f'func_{name}_{address}', and the literal 'func_unknown'.
Name(l, n, a) == [l |-> l, n |-> n, a |-> a]
NoName == Name("", 0, 0)
func_unknown == Name("func_unknown", 0, 0)

\* Resolved constants (strings in the code): t classifies the text.
CV(t, s, nm, arr) == [t |-> t, s |-> s, nm |-> nm, arr |-> arr]
EmptyStr == CV("", "", NoName, <<>>)                 \* ""
ArrayLiteral(nums) == CV("[..]", "", NoName, nums)   \* "[" + ", ".join(...) + "]"
EmptyArray == CV("[]", "", NoName, <<>>)             \* "[]"
NameRef(nm) == CV("name", "", nm, <<>>)              \* a registry key

Addrs == {1, 2}
Insts == {"A", "B"}
SfiValues == {"<SharedFunctionInfo foo>", "<SharedFunctionInfo>"}
BlockKinds == {"FixedArray", "ObjectBoilerplateDescription"}

\* 'idx: [0xADDR ]VALUE': a = idx, b = ADDR (0: none), s = VALUE,
\* c = the address written inside VALUE right before a '<FixedArray[n]>' (0: none).
SingleLines ==
    {Ln("Single", i, 0, 0, "7") : i \in 0..(MaxPool - 1)}
    \cup {Ln("Single", i, 2, 0, "<SharedFunctionInfo foo>") : i \in 0..(MaxPool - 1)}
\* 'i-j: VALUE': a = i, b = j
RangeLines == {Ln("Range", 0, MaxPool - 1, 0, "9"), Ln("Range", 1, MaxPool, 0, "9")}

\* The vocabulary of a dump.  A file is written either with the lines of
\* constant pools or with those of counts, handler tables and bytecode; both
\* have the block markers, the address lines and the handler-table header.
CommonLines ==
    {Ln("Start SharedFunctionInfo", 0, 0, 0, ""), Ln("End SharedFunctionInfo", 0, 0, 0, ""),
     Ln("Address", 1, 0, 0, ""),                          \* '0x1: [SharedFunctionInfo] in ...'
     Ln("Handler Table", 0, 0, 0, "")}                    \* 'Handler Table (size = 0)'

PoolLines ==
    CommonLines
    \cup {Ln("Constant pool", n, 0, 0, "") : n \in 0..MaxPool}
    \cup SingleLines \cup RangeLines
    \cup {Ln("Start", 0, 0, 0, "FixedArray"), Ln("End", 0, 0, 0, "FixedArray")}

CodeLines ==
    CommonLines
    \cup {Ln("Address", 2, 0, 0, ""),
          Ln("Address", 0, 0, 0, "bad")}                  \* '[SharedFunctionInfo]' and no more
    \cup {Ln("Parameter count", 1, 0, 0, ""), Ln("Parameter count", 0, 0, 0, "bad")}
    \cup {Ln("Register count", 2, 0, 0, "")}
    \cup {Ln("Handler Table", 1, 0, 0, "")}
    \cup {Ln("Entry", 0, 2, 4, ""), Ln("Entry", 0, 0, 0, "bad")}   \* '(a,b)  -> c (...'
    \cup {Ln("Bytecode", 0, 0, 0, i) : i \in Insts}                \* '@    0 : .. i'
    \cup {Ln("Bytecode", 2, 0, 0, "A")}

ParserLines(d) == IF d = "pool" THEN PoolLines ELSE CodeLines

----------------------------------------------------------------------------
(* Bytecode lists *)
CodeLine(line, inst) == [line_num |-> line, inst |-> inst]
Placeholder(off) == CodeLine(off, "// placeholder")

RECURSIVE InsertSorted(_, _)
\* list.sort is stable: c lands behind every element whose key is <= its own
InsertSorted(s, c) ==
    IF s = <<>> THEN <<c>>
    ELSE IF Last(s).line_num <= c.line_num THEN Append(s, c)
    ELSE Append(InsertSorted(Front(s), c), Last(s))

RECURSIVE SortByLineNum(_)
SortByLineNum(s) ==
    IF s = <<>> THEN <<>> ELSE InsertSorted(SortByLineNum(Front(s)), Last(s))

RECURSIVE Uniq(_, _)
Uniq(s, seen) ==
    IF s = <<>> THEN <<>>
    ELSE IF Head(s).line_num \in seen THEN Uniq(Tail(s), seen)
    ELSE <<Head(s)>> \o Uniq(Tail(s), seen \cup {Head(s).line_num})

\* parse_bytecode, lines 241-250
SortAndDedup(codes) == Uniq(SortByLineNum(codes), {})

RECURSIVE PlaceholdersFor(_, _, _)
PlaceholdersFor(off, hi, exist) ==
    IF off > hi THEN <<>>
    ELSE (IF off \in exist THEN <<>> ELSE <<Placeholder(off)>>)
         \o PlaceholdersFor(off + 1, hi, exist)

\* parse_shared_function_info, lines 557-565
FillOffsets(code) ==
    IF code = <<>> THEN code
    ELSE LET offs == {code[i].line_num : i \in DOMAIN code}
             lo == CHOOSE o \in offs : \A q \in offs : o <= q
             hi == CHOOSE o \in offs : \A q \in offs : o >= q
         IN SortByLineNum(code \o PlaceholdersFor(lo, hi, offs))

----------------------------------------------------------------------------
(* Constant values *)
inline_fixed_array_from_val(inner, table) ==
    IF inner = 0 THEN None                       \* the regex finds no '0x.. <FixedArray[n]>'
    ELSE IF inner \notin DOMAIN table THEN None
    ELSE Some(ArrayLiteral(table[inner]))

\* the label and the short name a '<SharedFunctionInfo ...>' value yields
NestedLabel(val) == IF val = "<SharedFunctionInfo foo>" THEN "foo" ELSE ""
FuncRef(val) == CV("func_ref", IF val = "<SharedFunctionInfo foo>" THEN "foo" ELSE "unknown",
                   NoName, <<>>)

\* _parse_const_value_from_single reads one more line for these values
NeedsPeek(address, val, inner, table) ==
    /\ address # 0
    /\ val \in SfiValues
    /\ IsNone(inline_fixed_array_from_val(inner, table))

\* _parse_const_value_from_single without the nested-function branch
parse_const_value_from_single(address, val, inner, table) ==
    IF address = 0 THEN CV("text", val, NoName, <<>>)
    ELSE IF val = "<String[1]: #a>" THEN CV("string", "a", NoName, <<>>)
    ELSE IF ~IsNone(inline_fixed_array_from_val(inner, table))
         THEN inline_fixed_array_from_val(inner, table)[1]
    ELSE IF val = "<ArrayBoilerplateDescription>" THEN EmptyArray
    ELSE IF val = "<ObjectBoilerplateDescription>" THEN CV("{}", "", NoName, <<>>)
    ELSE IF val = "<FixedArray[3]>" THEN EmptyArray
    ELSE IF val = "<Odd Oddball>" THEN CV("null", "", NoName, <<>>)
    ELSE CV("tail", val, NoName, <<>>)

----------------------------------------------------------------------------
(* The parser's calls.  A parser state p is                                *)
(*   [stack, funcs, rep, nframes, topStarts, topStored, aborted]           *)
(* stack: the active calls; funcs: all_functions; rep: repeat_last_line;   *)
(* the rest is history: blocks opened, top-level blocks opened and stored. *)

NewSfi(declarer) ==
    [declarer |-> declarer, name |-> func_unknown,
     argument_count |-> None, register_count |-> None, const_pool |-> None,
     exception_table |-> None, code |-> None]

\* History kept with a function record: the block's number (id), for a block
\* entered from a constant-pool entry the enclosing block (outer) and the
\* entry's index (slot), the last pool header's size (hdrN), the indices its
\* entries assigned, the fields assigned so far (resolved), whether the block
\* ended in the except branch, and the first instruction read at each offset.
NewHistory(id, outer, slot) ==
    [id |-> id, outer |-> outer, slot |-> slot, hdrN |-> -1, assigned |-> {},
     resolved |-> {}, raised |-> FALSE, first |-> {}]

FileFrame == [f |-> "file"]
SfiFrame(l, n, declarer, id, outer, slot) ==
    [f |-> "sfi", l |-> l, n |-> n, sfi |-> NewSfi(declarer),
     g |-> NewHistory(id, outer, slot)]
PoolFrame(size, func_name) ==
    [f |-> "pool", size |-> size, const_list |-> [i \in 1..size |-> None],
     assigned |-> 0, func_name |-> func_name, wait |-> "loop", idx |-> 0, val |-> "",
     ga |-> {}]
SkipFrame(kind) == [f |-> "skip", kind |-> kind]
HandlerFrame == [f |-> "ht", phase |-> "nxt", table |-> <<>>]
BytecodeFrame(first) == [f |-> "bc", code_list |-> <<first>>]

Push(p, fr) == [p EXCEPT !.stack = Append(@, fr)]
Pop(p) == [p EXCEPT !.stack = Front(@)]
SetTop(p, fr) == [p EXCEPT !.stack = Append(Front(@), fr)]
set_repeat_line_flag(p, flag) == [p EXCEPT !.rep = flag]

\* all_functions[name] = sfi: a dict keeps the position of a key it already has
StoreFunction(funcs, e) ==
    IF \E i \in DOMAIN funcs : funcs[i].name = e.name
    THEN [i \in DOMAIN funcs |-> IF funcs[i].name = e.name THEN e ELSE funcs[i]]
    ELSE Append(funcs, e)

\* lines 546-555 and 574-583
Normalize(sfi) ==
    [sfi EXCEPT
        !.argument_count = IF IsNone(@) THEN Some(0) ELSE @,
        !.register_count = IF IsNone(@) THEN Some(0) ELSE @,
        !.const_pool = IF IsNone(@) THEN Some(<<>>) ELSE @,
        !.exception_table = IF IsNone(@) THEN Some(<<>>) ELSE @,
        !.code = IF IsNone(@) THEN Some(<<>>) ELSE @]

\* the caller of parse_shared_function_info takes the returned name
ReturnName(p, name) ==
    LET top == Last(p.stack) IN
    IF top.f = "pool" /\ top.wait = "nested"
    THEN SetTop(p, [top EXCEPT !.const_list[top.idx + 1] = Some(NameRef(name)),
                               !.assigned = @ + 1, !.ga = @ \cup {top.idx},
                               !.wait = "loop"])
    ELSE p

\* The end of parse_shared_function_info for the frame fr (already popped):
\* lines 545-568, or the except branch 570-585 when raised.
EndFunction(p, fr, raised) ==
    LET n == Normalize(fr.sfi)
        sfi == IF raised THEN n ELSE [n EXCEPT !.code = Some(FillOffsets(n.code[1]))]
        e == [name |-> sfi.name, sfi |-> sfi, g |-> [fr.g EXCEPT !.raised = raised]]
        q == [p EXCEPT !.funcs = StoreFunction(@, e),
                       !.topStored = IF Len(p.stack) = 1 THEN @ + 1 ELSE @]
    IN ReturnName(q, sfi.name)

\* A parser without the try/except of lines 488 and 570: the exception leaves parse_file.
RaiseUncaught(p) == [p EXCEPT !.stack = <<>>, !.aborted = TRUE]

\* An exception unwinds to the innermost parse_shared_function_info.
Raise(p) ==
    LET ks == {k \in DOMAIN p.stack : p.stack[k].f = "sfi"} IN
    IF ks = {} THEN [p EXCEPT !.stack = <<>>, !.aborted = TRUE]
    ELSE LET k == CHOOSE x \in ks : \A y \in ks : y <= x
         IN EndFunction([p EXCEPT !.stack = SubSeq(@, 1, k - 1)], p.stack[k], TRUE)

\* the function frame on top takes the value a helper returns
SetField(p, field, value) ==
    LET fr == Last(p.stack) IN
    SetTop(p, [fr EXCEPT !.sfi[field] = Some(value), !.g.resolved = @ \cup {field}])

----------------------------------------------------------------------------
(* One line in each call.  table is FIXED_ARRAYS. *)

\* parse_file, lines 596-600
FileLine(p, l) ==
    IF l.k \in {"StopIteration", "None"} THEN [p EXCEPT !.stack = <<>>]
    ELSE IF l.k = "Start SharedFunctionInfo"
    THEN Push([p EXCEPT !.topStarts = @ + 1, !.nframes = @ + 1],
              SfiFrame("start", 0, NoName, p.nframes + 1, 0, 0))
    ELSE p

\* parse_shared_function_info, lines 489-543
SfiLine(p, l) ==
    LET fr == Last(p.stack) IN
    IF l.k \in {"StopIteration", "None", "End SharedFunctionInfo"}
    THEN EndFunction(Pop(p), fr, FALSE)
    ELSE IF l.k = "Start SharedFunctionInfo"
    THEN Push([p EXCEPT !.nframes = @ + 1],
              SfiFrame("nested", Len(p.funcs), fr.sfi.name, p.nframes + 1, 0, 0))
    ELSE IF l.k = "Parameter count"
    THEN IF l.s = "bad" THEN Raise(p) ELSE SetField(p, "argument_count", l.a)
    ELSE IF l.k = "Register count"
    THEN IF l.s = "bad" THEN Raise(p) ELSE SetField(p, "register_count", l.a)
    ELSE IF l.k = "Constant pool"
    THEN LET q == SetTop(p, [fr EXCEPT !.g.hdrN = l.a, !.g.assigned = {}]) IN
         IF l.a <= 0 THEN SetField(q, "const_pool", <<>>)
         ELSE Push(q, PoolFrame(l.a, fr.sfi.name))
    ELSE IF l.k = "Handler Table"
    THEN IF l.a = 0 THEN SetField(p, "exception_table", <<>>)
         ELSE Push(p, HandlerFrame)
    ELSE IF l.k = "Bytecode" /\ l.a = 0
    THEN Push(p, BytecodeFrame(CodeLine(l.a, l.s)))
    ELSE IF l.k = "Address"
    THEN IF l.s = "bad" THEN Raise(p)
         ELSE SetTop(p, [fr EXCEPT
                 !.sfi.name = Name(IF fr.l = "" THEN "unknown" ELSE fr.l, fr.n, l.a)])
    ELSE p

\* parse_const_pool, lines 431-436, and the assignment at line 529
EndPool(p) ==
    LET pf == Last(p.stack)
        filled == [i \in 1..pf.size |->
                     IF IsNone(pf.const_list[i]) THEN EmptyStr ELSE pf.const_list[i][1]]
        q == SetField(Pop(p), "const_pool", filled)
        fr == Last(q.stack)
    IN SetTop(q, [fr EXCEPT !.g.assigned = pf.ga])

RECURSIVE AssignRange(_, _, _, _)
\* lines 411-414
AssignRange(pf, idx, ei, raw_val) ==
    IF idx > ei THEN pf
    ELSE IF 0 <= idx /\ idx < pf.size /\ IsNone(pf.const_list[idx + 1])
    THEN AssignRange([pf EXCEPT !.const_list[idx + 1] = Some(raw_val),
                                !.assigned = @ + 1, !.ga = @ \cup {idx}],
                     idx + 1, ei, raw_val)
    ELSE AssignRange(pf, idx + 1, ei, raw_val)

\* parse_const_pool, lines 380-429
PoolLine(p, l, table) ==
    LET pf == Last(p.stack) IN
    IF l.k = "StopIteration" THEN EndPool(p)
    ELSE IF l.k = "None" THEN Raise(p)               \* None.strip()
    ELSE IF pf.assigned >= pf.size THEN EndPool(set_repeat_line_flag(p, TRUE))
    ELSE IF l.k = "Start SharedFunctionInfo"
    THEN Push([p EXCEPT !.nframes = @ + 1],
              SfiFrame("nested", Len(p.funcs), pf.func_name, p.nframes + 1, 0, 0))
    ELSE IF l.k = "Start" THEN Push(p, SkipFrame(l.s))
    ELSE IF l.k \in {"Handler Table", "End SharedFunctionInfo"}
    THEN EndPool(set_repeat_line_flag(p, TRUE))
    ELSE IF l.k = "Range"
    THEN SetTop(p, AssignRange(pf, l.a, l.b, CV("text", l.s, NoName, <<>>)))
    ELSE IF l.k = "Single"
    THEN IF 0 <= l.a /\ l.a < pf.size /\ IsNone(pf.const_list[l.a + 1])
         THEN IF NeedsPeek(l.b, l.s, l.c, table)
              THEN SetTop(p, [pf EXCEPT !.wait = "peek", !.idx = l.a, !.val = l.s])
              ELSE SetTop(p, [pf EXCEPT
                      !.const_list[l.a + 1] =
                          Some(parse_const_value_from_single(l.b, l.s, l.c, table)),
                      !.assigned = @ + 1, !.ga = @ \cup {l.a}])
         ELSE p
    ELSE p

\* _parse_const_value_from_single, lines 318-331, and the assignment at 424-425
PeekLine(p, l) ==
    LET pf == Last(p.stack)
        outer == p.stack[Len(p.stack) - 1]
        ref == [pf EXCEPT !.const_list[pf.idx + 1] = Some(FuncRef(pf.val)),
                          !.assigned = @ + 1, !.ga = @ \cup {pf.idx}, !.wait = "loop"]
    IN
    IF l.k = "StopIteration" THEN SetTop(p, ref)
    ELSE IF l.k = "Start SharedFunctionInfo"
    THEN Push(SetTop([p EXCEPT !.nframes = @ + 1], [pf EXCEPT !.wait = "nested"]),
              SfiFrame(NestedLabel(pf.val), 0, pf.func_name, p.nframes + 1,
                       outer.g.id, pf.idx))
    ELSE SetTop(set_repeat_line_flag(p, TRUE), ref)

\* skip_block
SkipLine(p, l) ==
    LET sf == Last(p.stack) IN
    IF l.k = "StopIteration" THEN Pop(p)
    ELSE IF l.k = "None" THEN Raise(p)               \* None.strip()
    ELSE IF l.k = "End" /\ l.s = sf.kind THEN Pop(p)
    ELSE p

\* exception_table[key] = value
PutHandler(table, key, value) ==
    IF \E i \in DOMAIN table : table[i][1] = key
    THEN [i \in DOMAIN table |-> IF table[i][1] = key THEN <<key, value>> ELSE table[i]]
    ELSE Append(table, <<key, value>>)

\* parse_handler_table, lines 452-462
HandlerLine(p, l) ==
    LET hf == Last(p.stack) IN
    IF l.k = "StopIteration" THEN Raise(p)
    ELSE IF hf.phase = "nxt"
    THEN IF l.k = "None" THEN SetField(Pop(p), "exception_table", <<>>)
         ELSE SetTop(p, [hf EXCEPT !.phase = "loop"])
    ELSE IF l.k # "Entry"
    THEN SetField(Pop(set_repeat_line_flag(p, TRUE)), "exception_table", hf.table)
    ELSE IF l.s = "bad" THEN Raise(p)
    ELSE SetTop(p, [hf EXCEPT !.table = PutHandler(@, l.c, <<l.a, l.b>>)])

\* parse_bytecode, lines 232-250, and the assignment at line 537
BytecodeLine(p, l) ==
    LET bf == Last(p.stack)
        q == SetField(Pop(p), "code", SortAndDedup(bf.code_list))
        fr == Last(q.stack)
        first == {<<bf.code_list[i].line_num, bf.code_list[i].inst>> : i \in
                    {i \in DOMAIN bf.code_list :
                        \A j \in 1..(i - 1) :
                            bf.code_list[j].line_num # bf.code_list[i].line_num}}
        done == SetTop(q, [fr EXCEPT !.g.first = first])
    IN
    IF l.k = "StopIteration" THEN Raise(p)
    ELSE IF l.k = "Bytecode"
    THEN SetTop(p, [bf EXCEPT !.code_list = Append(@, CodeLine(l.a, l.s))])
    ELSE IF l.k = "None" THEN done
    ELSE set_repeat_line_flag(done, TRUE)

----------------------------------------------------------------------------
(* The line source: get_next_line, lines 174-183.                          *)
(* gen: "start" before the first next(), "y1" suspended at `yield line`    *)
(* (line 179), "y2" at the second `yield line` (line 182), "none" at       *)
(* `yield None`, "dead" once the generator has returned.  The file is read *)
(* as the generator advances; blank lines never reach a yield.             *)
NextResults ==
    IF gen = "y1" /\ repeat_last_line
    THEN {[line |-> cur, gen |-> "y2", rep |-> FALSE, nread |-> nread]}
    ELSE IF gen \in {"start", "y1", "y2"}
    THEN {[line |-> l, gen |-> "y1", rep |-> repeat_last_line, nread |-> nread + 1] :
            l \in IF nread < MaxLines THEN ParserLines(dialect) ELSE {}}
         \cup {[line |-> NoneLine, gen |-> "none", rep |-> repeat_last_line,
                nread |-> nread]}
    ELSE {[line |-> StopIteration, gen |-> "dead", rep |-> repeat_last_line,
           nread |-> nread]}

\* ---- history: the function blocks of the file, by its markers ----
\* obs.blocks are the numbers of the blocks that are open behind the last line
\* read, the innermost last; obs.owner[id] is the block whose Start line
\* opened the call with that id; obs.lineBlock is the block of the last line.
\* A line is read from the file when the generator stops at line 179.
ReadsLine(r) == r.gen = "y1"
BlockCount(r) ==
    IF ReadsLine(r) /\ r.line.k = "Start SharedFunctionInfo" THEN obs.nblocks + 1
    ELSE obs.nblocks
BlocksAfter(r) ==
    IF ~ReadsLine(r) THEN obs.blocks
    ELSE IF r.line.k = "Start SharedFunctionInfo" THEN Append(obs.blocks, obs.nblocks + 1)
    ELSE IF r.line.k = "End SharedFunctionInfo" /\ obs.blocks # <<>> THEN Front(obs.blocks)
    ELSE obs.blocks
\* the block the delivered line lies in (0: none); an End marker lies in the
\* block it closes
BlockOf(r) ==
    IF ~ReadsLine(r) THEN obs.lineBlock
    ELSE IF r.line.k = "Start SharedFunctionInfo" THEN obs.nblocks + 1
    ELSE IF obs.blocks # <<>> THEN Last(obs.blocks)
    ELSE 0
\* the lines parse_shared_function_info builds a record from
FieldLines ==
    {"Parameter count", "Register count", "Constant pool", "Handler Table", "Bytecode",
     "Address"}
\* the parse of the block ended in the except branch
Failed(block) ==
    \E i \in DOMAIN all_functions :
        /\ all_functions[i].g.raised
        /\ obs.owner[all_functions[i].g.id] = block
\* parse_shared_function_info receives a line of a block that is not its own
\* and whose own parse has failed
TakesForeignLine(r) ==
    /\ stack # <<>> /\ Last(stack).f = "sfi"
    /\ BlockOf(r) # 0
    /\ BlockOf(r) # obs.owner[Last(stack).g.id]
    /\ Failed(BlockOf(r))

ParserState(rep) ==
    [stack |-> stack, funcs |-> all_functions, rep |-> rep, nframes |-> obs.nframes,
     topStarts |-> obs.topStarts, topStored |-> obs.topStored, aborted |-> obs.aborted]

\* One next(lines) by the innermost call, and what that call does with the line.
Deliver(r, p) ==
    /\ gen' = r.gen
    /\ nread' = r.nread
    /\ dialect' = dialect
    /\ repeat_last_line' = p.rep
    \* the generator's `line` is read again only when the flag is set
    /\ cur' = IF p.rep /\ r.gen \in {"y1", "y2"} THEN r.line ELSE NoneLine
    /\ stack' = p.stack
    /\ all_functions' = p.funcs
    /\ obs' = [pending |-> repeat_last_line /\ gen \in {"y1", "y2"},
               redelivered |-> r.gen = "y2",
               requested |-> p.rep /\ ~r.rep,
               lastStored |-> IF p.funcs # all_functions
                              THEN p.funcs[CHOOSE i \in DOMAIN p.funcs :
                                     \A j \in DOMAIN p.funcs :
                                        p.funcs[j].g.id <= p.funcs[i].g.id].g.id
                              ELSE obs.lastStored,
               nframes |-> p.nframes, topStarts |-> p.topStarts,
               topStored |-> p.topStored, aborted |-> p.aborted,
               blocks |-> BlocksAfter(r), nblocks |-> BlockCount(r),
               owner |-> IF p.nframes > obs.nframes
                         THEN Append(obs.owner, Last(BlocksAfter(r))) ELSE obs.owner,
               lineBlock |-> BlockOf(r),
               foreign |-> obs.foreign \/ (TakesForeignLine(r) /\ r.line.k \in FieldLines),
               early |-> obs.early
                         \/ (TakesForeignLine(r) /\ r.line.k = "End SharedFunctionInfo")]
    /\ UNCHANGED <<fvars, jvars, svars>>

Running(kind) == stack # <<>> /\ Last(stack).f = kind

ParseFile ==
    /\ Running("file")
    /\ \E r \in NextResults : Deliver(r, FileLine(ParserState(r.rep), r.line))

ParseSharedFunctionInfo ==
    /\ Running("sfi")
    /\ \E r \in NextResults : Deliver(r, SfiLine(ParserState(r.rep), r.line))

ParseConstPool ==
    /\ Running("pool") /\ Last(stack).wait = "loop"
    /\ \E r \in NextResults :
          Deliver(r, PoolLine(ParserState(r.rep), r.line, FIXED_ARRAYS))

ParseConstValue ==
    /\ Running("pool") /\ Last(stack).wait = "peek"
    /\ \E r \in NextResults : Deliver(r, PeekLine(ParserState(r.rep), r.line))

SkipBlock ==
    /\ Running("skip")
    /\ \E r \in NextResults : Deliver(r, SkipLine(ParserState(r.rep), r.line))

ParseHandlerTable ==
    /\ Running("ht")
    /\ \E r \in NextResults : Deliver(r, HandlerLine(ParserState(r.rep), r.line))

ParseBytecode ==
    /\ Running("bc")
    /\ \E r \in NextResults : Deliver(r, BytecodeLine(ParserState(r.rep), r.line))

\* the parts of the program a specification leaves idle
NoPrescan == fa_lines = <<>> /\ fa_i = -1 /\ FIXED_ARRAYS = <<>> /\ fa_out = <<>>
NoReconstruction ==
    /\ jump_blocks = <<>> /\ jump_list = <<>> /\ code_list = <<>> /\ registered = {}
    /\ pc = [at |-> "idle", i |-> 0]
NoSimplification ==
    /\ corpus = <<>> /\ SCOPEINFO_PARENT = <<>> /\ SCOPE_CTXID = <<>>
    /\ SCOPEINFO_INIT = FALSE /\ SCOPE_SLOT_ENV = <<>>
    /\ function_context_stack = <<>> /\ spc = [at |-> "idle"]
    /\ simpl = <<>> /\ hist = <<>>

\* parse_file on a file the prescan found no FixedArray block in
InitParse ==
    /\ gen = "start" /\ cur = NoneLine /\ nread = 0
    /\ dialect \in {"pool", "code"}
    /\ repeat_last_line = FALSE
    /\ stack = <<FileFrame>>
    /\ all_functions = <<>>
    /\ obs = [pending |-> FALSE, redelivered |-> FALSE, requested |-> FALSE,
              lastStored |-> 0, nframes |-> 0, topStarts |-> 0, topStored |-> 0, aborted |-> FALSE,
              blocks |-> <<>>, nblocks |-> 0, owner |-> <<>>, lineBlock |-> 0,
              foreign |-> FALSE, early |-> FALSE]
    /\ NoPrescan /\ NoReconstruction /\ NoSimplification

NextParse ==
    \/ ParseFile
    \/ ParseSharedFunctionInfo
    \/ ParseConstPool
    \/ ParseConstValue
    \/ SkipBlock
    \/ ParseHandlerTable
    \/ ParseBytecode

SpecParse == InitParse /\ [][NextParse]_vars

----------------------------------------------------------------------------
(* The FixedArray prescan: collect_fixed_arrays, lines 59-156.             *)
(* The file is a sequence of blocks; lines carry the same record as above. *)

MaxBlocks == 2     \* FixedArray blocks of the prescanned file

StartFixedArray == Ln("Start", 0, 0, 0, "FixedArray")
EndFixedArray == Ln("End", 0, 0, 0, "FixedArray")
AddressLine(a) == Ln("FixedArray address", a, 0, 0, "")     \* '0xa: [FixedArray]'
LengthLine(n) == Ln("length", n, 0, 0, "")                  \* ' - length: n'

\* int() of the decimal texts the files use
Numerals == {"1", "2", "5"}
int(s) == IF s = "1" THEN 1 ELSE IF s = "2" THEN 2 ELSE 5

\* '0: 1', '1-2: 2', '0-1: 5'
ElementLines ==
    {Ln("Single", 0, 0, 0, "1"), Ln("Range", 1, 2, 0, "2"), Ln("Range", 0, 1, 0, "5")}
ElementSeqs ==
    {<<>>} \cup {<<e>> : e \in ElementLines}
    \cup {<<e1, e2>> : e1 \in ElementLines, e2 \in ElementLines}

\* a block as the dump writes it; the address line and the length line may be missing
BlockLines(addr, length, elems) ==
    <<StartFixedArray>>
    \o (IF addr = 0 THEN <<>> ELSE <<AddressLine(addr)>>)
    \o (IF length < 0 THEN <<>> ELSE <<LengthLine(length)>>)
    \o elems \o <<EndFixedArray>>
Blocks ==
    {BlockLines(a, n, es) : a \in {0} \cup Addrs, n \in {-1, 3}, es \in ElementSeqs}

RECURSIVE Files(_)
Files(n) == IF n = 0 THEN {<<>>} ELSE Files(n - 1) \cup {f \o b : f \in Files(n - 1), b \in Blocks}

\* lines[i] with the code's 0-based index
At(lines, i) == lines[i + 1]
rx_addr(l) == l.k = "FixedArray address"
rx_len(l) == l.k = "length"
rx_single(l) == l.k = "Single" /\ l.b = 0 /\ l.s \in Numerals
rx_range(l) == l.k = "Range" /\ l.s \in Numerals

\* the first index >= from whose line satisfies Test, or N
FirstFrom(lines, from, Test(_)) ==
    LET N == Len(lines)
        hits == {j \in from..(N - 1) : Test(At(lines, j))}
    IN IF hits = {} THEN N ELSE CHOOSE j \in hits : \A q \in hits : j <= q
IsEnd(l) == l = EndFixedArray

RECURSIVE ParseEntries(_, _, _, _)
\* lines 115-134: the entries from index j up to (not including) index stop
ParseEntries(lines, j, stop, out) ==
    IF j >= stop THEN out
    ELSE LET l == At(lines, j) IN
         IF rx_range(l)
         THEN ParseEntries(lines, j + 1, stop,
                  [k \in DOMAIN out |-> IF l.a <= k - 1 /\ k - 1 <= l.b THEN int(l.s) ELSE out[k]])
         ELSE IF rx_single(l)
         THEN ParseEntries(lines, j + 1, stop,
                  [k \in DOMAIN out |-> IF k - 1 = l.a THEN int(l.s) ELSE out[k]])
         ELSE ParseEntries(lines, j + 1, stop, out)

\* FIXED_ARRAYS[addr_int] = out
PutArray(table, addr, out) ==
    [a \in DOMAIN table \cup {addr} |-> IF a = addr THEN out ELSE table[a]]

\* One iteration of the outer while loop at index i < N: [i, table] afterwards
\* (i = N + 1 stands for the break at line 77).
ScanStep(lines, i, table) ==
    LET N == Len(lines) IN
    IF At(lines, i) # StartFixedArray THEN [i |-> i + 1, table |-> table]
    ELSE IF i + 1 >= N THEN [i |-> N + 1, table |-> table]
    ELSE LET ahead == {j \in (i + 1)..(Min(i + 4, N) - 1) : rx_addr(At(lines, j))} IN
         IF ahead = {}
         THEN [i |-> FirstFrom(lines, i + 1, IsEnd) + 1, table |-> table]
         ELSE LET ia == CHOOSE j \in ahead : \A q \in ahead : j <= q
                  jl == FirstFrom(lines, ia + 1, rx_len)
              IN IF jl = N
                 THEN [i |-> N + 1, table |-> table]
                 ELSE LET length == At(lines, jl).a
                          stop == FirstFrom(lines, jl + 1, IsEnd)
                          out == ParseEntries(lines, jl + 1, stop, [k \in 1..length |-> 0])
                      IN [i |-> stop + 1, table |-> PutArray(table, At(lines, ia).a, out)]

collect_fixed_arrays ==
    /\ fa_i >= 0
    /\ LET r == ScanStep(fa_lines, fa_i, FIXED_ARRAYS) IN
       /\ fa_i' = IF r.i < Len(fa_lines) THEN r.i ELSE -1
       /\ FIXED_ARRAYS' = r.table
    /\ UNCHANGED <<fa_lines, fa_out, pvars, jvars, svars>>

(* Constant-pool entries that name an array: the text after 'idx:' in the  *)
(* pieces the patterns of parse_const_pool tell apart.                     *)
AddrTokens == {"0x1", "0x2", "0x9"}
normalize_addr(t) == IF t = "0x1" THEN 1 ELSE IF t = "0x2" THEN 2 ELSE 9
ArrayEntries ==
    {<<"0x1", "<FixedArray[3]>">>, <<"0x2", "<FixedArray[3]>">>,
     <<"0x9", "<ArrayBoilerplateDescription>", "0x1", "<FixedArray[3]>">>,
     <<"0x9", "<ArrayBoilerplateDescription>">>,
     <<"<FixedArray[3]>">>}

\* rx_single of parse_const_pool, line 377: group 2 takes a leading address
\* (when text follows it), group 3 the rest
SingleAddress(toks) == IF Len(toks) > 1 /\ toks[1] \in AddrTokens THEN normalize_addr(toks[1]) ELSE 0
SingleValue(toks) == IF Len(toks) > 1 /\ toks[1] \in AddrTokens THEN Tail(toks) ELSE toks

\* the address re.search finds in val in front of a '<FixedArray[n]>' (line 278); 0: no match
InnerAddress(val) ==
    LET hits == {k \in 1..(Len(val) - 1) : val[k] \in AddrTokens /\ val[k + 1] = "<FixedArray[3]>"}
    IN IF hits = {} THEN 0 ELSE normalize_addr(val[CHOOSE k \in hits : \A q \in hits : k <= q])

\* lines 416-425 for an entry of a pool whose slot is free
ResolveSingle(toks, table) ==
    parse_const_value_from_single(SingleAddress(toks), Head(SingleValue(toks)),
                                  InnerAddress(SingleValue(toks)), table)

ResolveConstant ==
    /\ fa_i = -1 /\ fa_out = <<>>
    /\ \E toks \in ArrayEntries :
          fa_out' = <<[entry |-> toks, value |-> ResolveSingle(toks, FIXED_ARRAYS)]>>
    /\ UNCHANGED <<fa_lines, fa_i, FIXED_ARRAYS, pvars, jvars, svars>>

InitFA ==
    /\ fa_lines \in Files(MaxBlocks)
    /\ fa_i = IF fa_lines = <<>> THEN -1 ELSE 0
    /\ FIXED_ARRAYS = <<>>
    /\ fa_out = <<>>
    /\ gen = "start" /\ cur = NoneLine /\ nread = 0 /\ dialect = "pool"
    /\ repeat_last_line = FALSE /\ stack = <<>> /\ all_functions = <<>>
    /\ obs = [pending |-> FALSE, redelivered |-> FALSE, requested |-> FALSE,
              lastStored |-> 0, nframes |-> 0, topStarts |-> 0, topStored |-> 0, aborted |-> FALSE,
              blocks |-> <<>>, nblocks |-> 0, owner |-> <<>>, lineBlock |-> 0,
              foreign |-> FALSE, early |-> FALSE]
    /\ NoReconstruction /\ NoSimplification

NextFA == collect_fixed_arrays \/ ResolveConstant

SpecFA == InitFA /\ [][NextFA]_vars

----------------------------------------------------------------------------
(* Reconstruction: JumpBlocks (Translate/jump_blocks.py).                  *)
(* A text is a sequence of pieces, cut wherever the code's `in`, replace   *)
(* and split look: "\n", "{", "}", "(", ")", "!", " != ", "if".            *)
(* jb is the JumpBlocks object:                                            *)
(*   code_offset  the sorted offsets        translated  offset -> text     *)
(*   jumps        the Jump objects, by Id   jump_table  type -> the keys   *)
(*                of the table, in insertion order (a key is a start and   *)
(*                stands for the object registered at it)                  *)
(*   hung         the while loop of get_last_if_in_statement never ends    *)
(*   raised       get_relative_offset raised on the empty code list        *)
(*   g            history: what each handled loop inserted, the objects    *)
(*                handlers were dispatched on                              *)

MaxOffset == 2     \* the instructions sit at offsets 0..MaxOffset
MaxEdges == 2      \* edges the translator registers

\* translate.py line 44, in the dict's order
JumpTypes == <<"Loop", "Exception", "Catch", "IntSwitch", "If", "Jump", "IfJSReceiver">>

Jump(jump_type, start, end) ==
    [type |-> jump_type, start |-> start, end |-> end, done |-> FALSE,
     case_line |-> <<>>, last_case_start |-> 0]
SwitchJump(jump_type, start, end, line, last_case) ==
    [type |-> jump_type, start |-> start, end |-> end, done |-> FALSE,
     case_line |-> line, last_case_start |-> last_case]
Id(type, start) == [type |-> type, start |-> start]

\* ---- texts ----
Has(text, piece) == \E i \in DOMAIN text : text[i] = piece
RECURSIVE Replace(_, _, _)
\* str.replace of every occurrence of one piece
Replace(text, piece, by) ==
    IF text = <<>> THEN <<>>
    ELSE (IF Head(text) = piece THEN by ELSE <<Head(text)>>) \o Replace(Tail(text), piece, by)
RECURSIVE ReplaceAll(_, _, _)
\* str.replace of a run of pieces: leftmost first, not overlapping
ReplaceAll(text, run, by) ==
    IF Len(text) < Len(run) THEN text
    ELSE IF SubSeq(text, 1, Len(run)) = run
    THEN by \o ReplaceAll(SubSeq(text, Len(run) + 1, Len(text)), run, by)
    ELSE <<Head(text)>> \o ReplaceAll(Tail(text), run, by)
RECURSIVE Count(_, _)
Count(text, piece) ==
    IF text = <<>> THEN 0 ELSE (IF Head(text) = piece THEN 1 ELSE 0) + Count(Tail(text), piece)

\* ---- offsets ----
bisect_left(s, x) == Cardinality({i \in DOMAIN s : s[i] < x})

\* lines 23-38; -1 is None
snap_to_existing_offset(jb, offset) ==
    LET co == jb.code_offset
        idx == bisect_left(co, offset)
    IN IF co = <<>> THEN -1
       ELSE IF idx = 0 THEN co[1]
       ELSE IF idx = Len(co) THEN co[Len(co)]
       ELSE IF co[idx + 1] = offset THEN offset
       ELSE co[idx]

\* lines 40-45: the offset of the CodeLine returned; -1 is None
get_line(jb, offset) == snap_to_existing_offset(jb, offset)

\* lines 52-68, for a code list that is not empty
get_relative_offset(jb, offset, n) ==
    LET co == jb.code_offset
        b == bisect_left(co, offset)
        idx == IF b >= Len(co) THEN Len(co) - 1
               ELSE IF co[b + 1] # offset /\ b > 0 THEN b - 1
               ELSE b
        new_idx == Min(Max(idx + n, 0), Len(co) - 1)
    IN co[new_idx + 1]

\* line.translated = f(line.translated), for the line at an offset that exists
SetText(jb, offset, text) == [jb EXCEPT !.translated[offset] = text]
Append2(jb, offset, text) == [jb EXCEPT !.translated[offset] = @ \o text]
Prepend(jb, offset, text) == [jb EXCEPT !.translated[offset] = text \o @]

\* ---- tables ----
RECURSIVE Without(_, _)
Without(keys, k) ==
    IF keys = <<>> THEN <<>>
    ELSE (IF Head(keys) = k THEN <<>> ELSE <<Head(keys)>>) \o Without(Tail(keys), k)

InTable(jb, type, k) == \E i \in DOMAIN jb.jump_table[type] : jb.jump_table[type][i] = k
\* the Catch table holds Jump objects (line 222)
TableType(type) == IF type = "Catch" THEN "Jump" ELSE type
\* table[k]
TableAt(jb, type, k) == jb.jumps[Id(TableType(type), k)]
\* table.values()
Values(jb, type) ==
    [i \in DOMAIN jb.jump_table[type] |-> TableAt(jb, type, jb.jump_table[type][i])]

\* lines 47-50
jump_done(jb, jmp) ==
    [jb EXCEPT !.jumps[Id(jmp.type, jmp.start)].done = TRUE,
               !.jump_table[jmp.type] = Without(@, jmp.start)]

\* ---- get_all_jump_list, lines 70-85 ----
RECURSIVE AdjustEndsAll(_, _)
\* AdjustEnds without lines 76-78: an edge with start = end is shifted like the others
AdjustEndsAll(jb, ids) ==
    IF ids = <<>> THEN jb
    ELSE LET jmp == jb.jumps[Head(ids)] IN
         IF jmp.type \in {"Loop", "IntSwitch"} THEN AdjustEndsAll(jb, Tail(ids))
         ELSE IF jb.code_offset = <<>> THEN [jb EXCEPT !.raised = TRUE]
         ELSE AdjustEndsAll([jb EXCEPT !.jumps[Head(ids)].end =
                                          get_relative_offset(jb, jmp.end, -1)],
                            Tail(ids))

RECURSIVE AdjustEnds(_, _)
\* the for loop over jump_list (a list of Ids); get_relative_offset raises on
\* an empty code list (line 55) and the exception leaves the loop
AdjustEnds(jb, ids) ==
    IF ids = <<>> THEN jb
    ELSE LET jmp == jb.jumps[Head(ids)] IN
         IF jmp.start = jmp.end THEN AdjustEnds(jump_done(jb, jmp), Tail(ids))
         ELSE IF jmp.type \in {"Loop", "IntSwitch"} THEN AdjustEnds(jb, Tail(ids))
         ELSE IF jb.code_offset = <<>> THEN [jb EXCEPT !.raised = TRUE]
         ELSE AdjustEnds([jb EXCEPT !.jumps[Head(ids)].end = get_relative_offset(jb, jmp.end, -1)],
                         Tail(ids))

RECURSIVE InsertByStartEnd(_, _, _)
\* a stable sort: id lands behind every element whose key is <= its own
InsertByStartEnd(jb, s, id) ==
    LET a == jb.jumps[id] IN
    IF s = <<>> THEN <<id>>
    ELSE LET b == jb.jumps[Last(s)] IN
         IF b.start < a.start \/ (b.start = a.start /\ b.end <= a.end) THEN Append(s, id)
         ELSE Append(InsertByStartEnd(jb, Front(s), id), Last(s))
RECURSIVE SortByStartEnd(_, _)
SortByStartEnd(jb, s) ==
    IF s = <<>> THEN <<>> ELSE InsertByStartEnd(jb, SortByStartEnd(jb, Front(s)), Last(s))

RECURSIVE AllJumps(_, _)
\* line 72: the tables in the dict's order, each in its insertion order
AllJumps(jb, types) ==
    IF types = <<>> THEN <<>>
    ELSE [i \in DOMAIN jb.jump_table[Head(types)] |->
             Id(TableType(Head(types)), jb.jump_table[Head(types)][i])]
         \o AllJumps(jb, Tail(types))

\* ---- remove_if_js_receiver, lines 469-501 ----
RECURSIVE DoneAt(_, _, _)
\* lines 492-494
DoneAt(jb, types, idx) ==
    IF types = <<>> THEN jb
    ELSE DoneAt(IF InTable(jb, Head(types), idx)
                THEN jump_done(jb, TableAt(jb, Head(types), idx)) ELSE jb,
                Tail(types), idx)

RECURSIVE Blank(_, _, _)
\* the while loop of lines 482-494
Blank(jb, idx, end_target) ==
    IF idx = end_target THEN jb
    ELSE LET b == SetText(jb, get_line(jb, idx), <<>>)
             next_idx == get_relative_offset(b, idx, 1)
         IN IF next_idx = idx THEN b
            ELSE Blank(DoneAt(b, JumpTypes, next_idx), next_idx, end_target)

RECURSIVE RemoveReceivers(_, _)
\* the for loop over the snapshot of the IfJSReceiver table
RemoveReceivers(jb, ids) ==
    IF ids = <<>> THEN jb
    ELSE LET jmp == jb.jumps[Head(ids)]
             end_target == snap_to_existing_offset(jb, jmp.end)
             idx == snap_to_existing_offset(jb, jmp.start)
         IN IF end_target = -1 \/ idx = -1
            THEN RemoveReceivers(jump_done(jb, jmp), Tail(ids))
            ELSE RemoveReceivers(
                     jump_done(SetText(Blank(jb, idx, end_target), end_target, <<>>), jmp),
                     Tail(ids))

remove_if_js_receiver(jb) ==
    RemoveReceivers(jb, [i \in DOMAIN jb.jump_table["IfJSReceiver"] |->
                            Id("IfJSReceiver", jb.jump_table["IfJSReceiver"][i])])

\* ---- close_section, lines 87-102 ----
RECURSIVE CatchEnd(_, _, _)
\* lines 89-91
CatchEnd(catches, start, end) ==
    IF catches = <<>> THEN end
    ELSE CatchEnd(Tail(catches), start,
                  IF start < Head(catches).start /\ Head(catches).start <= Head(catches).end
                  THEN Head(catches).start ELSE end)

\* CloseAt with no brace for an end line that opens a block
CloseAtBare(jb, end, end_line) ==
    IF end_line = -1 THEN [jb |-> jb, end |-> end]
    ELSE [jb |-> IF Has(jb.translated[end_line], "{") THEN jb
                 ELSE Append2(jb, end_line, <<"\n", "}", "\n">>),
          end |-> end_line]

\* lines 92-102 for the end the catches leave: [jb, end], the object as
\* close_section leaves it and the value it returns
CloseAt(jb, end, end_line) ==
    IF end_line = -1 THEN [jb |-> jb, end |-> end]
    ELSE [jb |-> IF Has(jb.translated[end_line], "{")
                 THEN Prepend(jb, end_line, <<"\n", "}", "\n">>)
                 ELSE Append2(jb, end_line, <<"\n", "}", "\n">>),
          end |-> end_line]

close_section(jb, start, end) ==
    CloseAt(jb, CatchEnd(Values(jb, "Catch"), start, end),
            get_line(jb, CatchEnd(Values(jb, "Catch"), start, end)))

\* ---- handle_break and handle_continue, lines 115-178 ----
\* lines 128-140 and 166-178: the statement lands at the jump's start
Leave(jb, jmp, statement) ==
    LET start_line == get_line(jb, jmp.start)
        end_line == get_line(jb, jmp.end)
    IN jump_done(
           IF jmp.type = "If" THEN Append2(jb, start_line, <<" ", statement>>)
           ELSE IF Has(jb.translated[end_line], "{") THEN Prepend(jb, start_line, <<statement>>)
           ELSE Append2(jb, start_line, <<statement>>),
           jmp)

\* list(If.values()) + list(Jump.values()), as Ids
IfsAndJumps(jb) ==
    [i \in DOMAIN jb.jump_table["If"] |-> Id("If", jb.jump_table["If"][i])]
    \o [i \in DOMAIN jb.jump_table["Jump"] |-> Id("Jump", jb.jump_table["Jump"][i])]

RECURSIVE Breaks(_, _, _, _)
\* the for loop of handle_break: r = [jb, end_jumps]
Breaks(r, ids, range_start, range_end) ==
    IF ids = <<>> THEN r
    ELSE LET jmp == r.jb.jumps[Head(ids)] IN
         IF ~(range_start <= jmp.start /\ jmp.start <= range_end /\ range_end < jmp.end)
            \/ get_line(r.jb, jmp.start) = -1
         THEN Breaks(r, Tail(ids), range_start, range_end)
         ELSE Breaks([jb |-> Leave(r.jb, jmp, "break"),
                      end_jumps |-> r.end_jumps \cup {get_line(r.jb, jmp.end)}],
                     Tail(ids), range_start, range_end)

handle_break(jb, range_start, range_end) ==
    Breaks([jb |-> jb, end_jumps |-> {}], IfsAndJumps(jb), range_start, range_end)

\* handle_break(start, end) behind end = close_section(..), with the end one
\* line back where the code asks for it: the object it leaves
BreakFrom(closed, start, back) ==
    handle_break(closed.jb, start,
                 IF back THEN get_relative_offset(closed.jb, closed.end, -1)
                 ELSE closed.end).jb

RECURSIVE Continues(_, _, _, _, _)
\* the for loop of handle_continue
Continues(jb, ids, range_start, range_end, near_loop_end) ==
    IF ids = <<>> THEN jb
    ELSE LET jmp == jb.jumps[Head(ids)] IN
         IF ~(range_start <= jmp.start /\ near_loop_end <= jmp.end /\ jmp.end <= range_end)
            \/ (jmp.type = "If" /\ InTable(jb, "Jump", jmp.end))
            \/ get_line(jb, jmp.start) = -1
         THEN Continues(jb, Tail(ids), range_start, range_end, near_loop_end)
         ELSE Continues(Leave(jb, jmp, "continue"), Tail(ids), range_start, range_end,
                        near_loop_end)

handle_continue(jb, range_start, range_end) ==
    IF jb.code_offset = <<>> THEN jb
    ELSE Continues(jb, IfsAndJumps(jb), range_start, range_end,
                   get_relative_offset(jb, range_end, -4))

\* ---- handle_loop, lines 180-199 ----
RECURSIVE CountFrom(_, _, _)
CountFrom(jb, offs, piece) ==
    IF offs = <<>> THEN 0
    ELSE Count(jb.translated[Head(offs)], piece) + CountFrom(jb, Tail(offs), piece)
\* occurrences of a piece in the texts of all lines
CountAll(jb, piece) == CountFrom(jb, jb.code_offset, piece)

handle_loop(jb, loop) ==
    LET start_line == get_line(jb, loop.start) IN
    IF start_line = -1 THEN jump_done(jb, loop)
    ELSE LET opened == Prepend(jb, start_line, <<"while ", "(", "true", ")", "\n", "{", "\n">>)
             closed == close_section(opened, loop.start, loop.end).jb
             range_end == get_relative_offset(closed, loop.end, -1)
             broken == handle_break(jump_done(closed, loop), loop.start, range_end).jb
             \* history: the pieces the loop's two insertions added
             seen == [broken EXCEPT !.g.loops = @ \cup
                         {[start |-> loop.start,
                           opened |-> CountAll(opened, "while ") - CountAll(jb, "while "),
                           closed |-> CountAll(closed, "}") - CountAll(opened, "}")]}]
         IN handle_continue(seen, loop.start, range_end)

\* ---- handle_exception, lines 201-229 ----
handle_exception(jb, try_jmp) ==
    LET start_line == get_line(jb, try_jmp.start) IN
    IF start_line = -1 THEN jump_done(jb, try_jmp)
    ELSE LET tried == Prepend(jb, start_line, <<"try", "\n", "{", "\n">>) IN
         IF InTable(tried, "Jump", try_jmp.end)
         THEN LET catch_jump == TableAt(tried, "Jump", try_jmp.end)
                  a == Append2(tried, get_line(tried, catch_jump.start),
                               <<"\n", "}", "\n", "catch", "\n", "{">>)
                  b == Append2(a, get_line(a, catch_jump.end), <<"\n", "}", "\n">>)
                  c == [b EXCEPT !.jump_table["Catch"] =
                           IF InTable(b, "Catch", catch_jump.start) THEN @
                           ELSE Append(@, catch_jump.start)]
              IN jump_done(jump_done(c, catch_jump), try_jmp)
         ELSE jump_done(Append2(tried, get_line(tried, try_jmp.end),
                                <<"\n", "}", "\n", "catch ", "{", "}", "\n">>),
                        try_jmp)

\* ---- switches, lines 231-356 ----
RECURSIVE Sorted(_)
\* sorted(a set of offsets)
Sorted(S) ==
    IF S = {} THEN <<>>
    ELSE LET m == CHOOSE x \in S : \A y \in S : x <= y IN <<m>> \o Sorted(S \ {m})
SetMin(S) == CHOOSE x \in S : \A y \in S : x <= y
SetMax(S) == CHOOSE x \in S : \A y \in S : x >= y

\* translated.replace("\n{\n", "\n{}\n") at a line (lines 268 and 351)
CloseEmpty(jb, offset) ==
    IF get_line(jb, offset) = -1 THEN jb
    ELSE SetText(jb, get_line(jb, offset),
                 ReplaceAll(jb.translated[get_line(jb, offset)],
                            <<"\n", "{", "\n">>, <<"\n", "{", "}", "\n">>))

\* lines 249-256, one case: [jb, end_jumps] of the breaks out of the case before
IntCase(a, case, prev_start) ==
    handle_break(a, prev_start, get_relative_offset(a, case.start, -1))

\* end_jumps.update(..) and the object the call leaves
Update(end_jumps, h) == [jb |-> h.jb, end_jumps |-> end_jumps \cup h.end_jumps]

RECURSIVE IntCases(_, _, _)
\* the while loop of lines 246-257: r = [jb, end_jumps]; k is the key looked up
IntCases(r, k, prev_start) ==
    IF ~InTable(r.jb, "IntSwitch", k) THEN r
    ELSE LET case == TableAt(r.jb, "IntSwitch", k)
             b == Update(r.end_jumps,
                         IntCase(IF get_line(r.jb, case.start) = -1 THEN r.jb
                                 ELSE Prepend(r.jb, get_line(r.jb, case.start),
                                              <<"\n", "}", "\n">> \o case.case_line
                                              \o <<"\n", "{", "\n">>),
                                 case, prev_start))
         IN IntCases([b EXCEPT !.jb = jump_done(@, case)], case.end, case.start)

\* lines 259-262: the breaks out of the last case, r = [jb, end_jumps]
LastCaseBreaks(r, swt) ==
    IF r.end_jumps = {} THEN r
    ELSE Update(r.end_jumps,
                handle_break(r.jb, swt.last_case_start,
                             get_relative_offset(r.jb, SetMin(r.end_jumps), -1)))

\* lines 264-290: c = [jb, end_jumps]
CloseIntSwitch(c, swt) ==
    LET switch_end == Sorted({x \in c.end_jumps : x > swt.last_case_start})
        n == Len(switch_end)
    IN IF n = 0 THEN CloseEmpty(c.jb, swt.last_case_start)
       ELSE IF n = 1 THEN close_section(c.jb, swt.last_case_start, switch_end[1]).jb
       ELSE BreakFrom(close_section(Append2(c.jb, get_line(c.jb, switch_end[n - 1]),
                                            <<"\n", "}", "\n", "default:", "\n", "{", "\n">>),
                                    switch_end[n - 1], switch_end[n]),
                      switch_end[n - 1], n = 2)

handle_int_switch_case(jb, swt) ==
    IF ~Has(swt.case_line, "switch ") \/ get_line(jb, swt.start) = -1 THEN jb
    ELSE CloseIntSwitch(
             LastCaseBreaks(
                 IntCases([jb |-> Append2(jb, get_line(jb, swt.start),
                                          <<"\n">> \o swt.case_line \o <<"\n", "{", "\n">>),
                           end_jumps |-> {}],
                          swt.end, swt.start),
                 swt),
             swt)

RECURSIVE InsertByEnd(_, _, _)
InsertByEnd(jb, s, id) ==
    IF s = <<>> THEN <<id>>
    ELSE IF jb.jumps[Last(s)].end <= jb.jumps[id].end THEN Append(s, id)
    ELSE Append(InsertByEnd(jb, Front(s), id), Last(s))
RECURSIVE SortByEnd(_, _)
\* cases.sort(key=lambda x: x.end)
SortByEnd(jb, s) == IF s = <<>> THEN <<>> ELSE InsertByEnd(jb, SortByEnd(jb, Front(s)), Last(s))

\* [c for c in ids if Test(c)], over Ids
SelectIds(jb, ids, Test(_)) == SelectSeq(ids, LAMBDA id : Test(jb.jumps[id]))
Ifs(jb) == [i \in DOMAIN jb.jump_table["If"] |-> Id("If", jb.jump_table["If"][i])]

\* lines 325-333: the case is named, its line rewritten, the jump done
MarkCase(jb, case, idx) ==
    jump_done(IF case.type = "Jump" \/ get_line(jb, case.start) = -1 THEN jb
              ELSE SetText(jb, get_line(jb, case.start), <<"CASE_", ToString(idx), " = ACCU">>),
              case)

\* lines 338-339: [jb, end_jumps]; `if prev_case_start:` is false for None (-1) and 0
PrevCaseBreaks(b, prev_case_start, end) ==
    IF prev_case_start > 0
    THEN handle_break(b, get_relative_offset(b, prev_case_start, 1), end)
    ELSE [jb |-> b, end_jumps |-> {}]

\* lines 341-345
OpenCase(r, h, case, case_line) ==
    [jb |-> IF get_line(h.jb, case.end) = -1 THEN h.jb
            ELSE Append2(h.jb, get_line(h.jb, case.end), case_line \o <<"{", "\n">>),
     case_line |-> <<"\n", "}", "\n">>,
     switch_end |-> r.switch_end \cup h.end_jumps,
     prev_case_start |-> case.end]

RECURSIVE SwitchCases(_, _, _)
\* the for loop of lines 324-345 over cases[idx..]:
\* r = [jb, case_line, switch_end, prev_case_start]; prev_case_start -1 is None
SwitchCases(r, cases, idx) ==
    IF idx >= Len(cases) THEN r
    ELSE LET case == r.jb.jumps[cases[idx + 1]]
             case_line == r.case_line \o
                          (IF case.type = "Jump" THEN <<"default:", "\n">>
                           ELSE <<"case CASE_", ToString(idx), ":", "\n">>)
         IN IF idx + 1 < Len(cases) /\ case.end = r.jb.jumps[cases[idx + 2]].end
            THEN SwitchCases([r EXCEPT !.jb = MarkCase(@, case, idx), !.case_line = case_line],
                             cases, idx + 1)
            ELSE SwitchCases(OpenCase(r, PrevCaseBreaks(MarkCase(r.jb, case, idx),
                                                        r.prev_case_start, case.end),
                                      case, case_line),
                             cases, idx + 1)

\* lines 347-355: r is what the for loop leaves, last is cases[-1]
CloseSwitch(r, last, default_case) ==
    IF r.switch_end = {} \/ SetMax(r.switch_end) = default_case.end
    THEN CloseEmpty(r.jb, last.end)
    ELSE BreakFrom(close_section(r.jb, last.start, SetMax(r.switch_end)), last.start, TRUE)

\* lines 315-355, cases sorted with the default case among them
Switch(jb, cases, default_case) ==
    CloseSwitch(SwitchCases([jb |-> jb, case_line |-> <<"switch ", "(", ")", "\n">>,
                             switch_end |-> {}, prev_case_start |-> -1],
                            cases, 0),
                jb.jumps[Last(cases)], default_case)

\* handle_switch: [handled, jb]
handle_switch(jb, swt) ==
    LET InRange(c) == swt.start <= c.start /\ c.start <= swt.end /\ swt.end <= c.end
        cases == SelectIds(jb, Ifs(jb), InRange)
        no == [handled |-> FALSE, jb |-> jb]
    IN IF cases = <<>> THEN no
       ELSE LET k == get_relative_offset(jb, jb.jumps[Last(cases)].start, 1) IN
            IF \/ Cardinality({jb.jumps[c].end : c \in Range(cases)}) < 2
               \/ ~InTable(jb, "Jump", k)
               \/ swt.end < k
            THEN no
            ELSE [handled |-> TRUE,
                  jb |-> Switch(jb, SortByEnd(jb, Append(cases, Id("Jump", k))),
                                TableAt(jb, "Jump", k))]

\* ---- ifs, lines 358-457 ----
RECURSIVE LastIf(_, _, _)
\* the while loop of lines 363-366 from last_if (an Id): the Id it ends at,
\* or Id("hang", 0) when the chain of If edges comes back to an edge it left
LastIf(jb, last_if, seen) ==
    LET end == jb.jumps[last_if].end IN
    IF ~InTable(jb, "If", end) \/ Id("If", end) = last_if THEN last_if
    ELSE IF end = jb.jumps[Id("If", end)].end THEN last_if
    ELSE IF Id("If", end) \in seen THEN Id("hang", 0)
    ELSE LastIf(jb, Id("If", end), seen \cup {last_if})

\* get_last_if_in_statement after its while loop: [jb, last_if]
get_last_if_in_statement(jb, chain_end) ==
    LET end == jb.jumps[chain_end].end
        ending == {id \in Range(Ifs(jb)) : jb.jumps[id].end = end}
        last_if == IF InTable(jb, "Jump", end) /\ ending # {}
                   THEN CHOOSE id \in ending : \A o \in ending : o.start <= id.start
                   ELSE chain_end
        k == get_relative_offset(jb, last_if.start, 1)
    IN IF InTable(jb, "Jump", k)
       THEN [jb |-> jump_done([jb EXCEPT !.jumps[last_if].end = TableAt(jb, "Jump", k).end],
                              TableAt(jb, "Jump", k)),
             last_if |-> last_if]
       ELSE [jb |-> jb, last_if |-> last_if]

\* lines 385-396
invert_if_statement(jb, statement) ==
    LET line == get_line(jb, statement.start) IN
    IF line = -1 THEN jb
    ELSE LET text == jb.translated[line] IN
         IF Has(text, " != ") THEN SetText(jb, line, Replace(text, " != ", <<" == ">>))
         ELSE IF Has(text, "!") THEN SetText(jb, line, Replace(text, "!", <<>>))
         ELSE SetText(jb, line, Replace(text, "(", <<"(", "!">>))

RECURSIVE Colour(_, _, _, _)
\* lines 404-408: t = [table, queue]
Colour(t, all_if, known_start, known_type) ==
    IF all_if = <<>> THEN t
    ELSE LET jmp == Head(all_if)
             current_type == IF known_type = "&&" THEN "||" ELSE "&&"
         IN IF jmp.end = known_start /\ jmp.start \notin DOMAIN t.table
            THEN Colour([table |-> [o \in DOMAIN t.table \cup {jmp.start} |->
                                       IF o = jmp.start THEN current_type ELSE t.table[o]],
                         queue |-> Append(t.queue, <<jmp.start, current_type>>)],
                        Tail(all_if), known_start, known_type)
            ELSE Colour(t, Tail(all_if), known_start, known_type)

RECURSIVE Propagate(_, _)
\* the while loop of lines 402-408
Propagate(t, all_if) ==
    IF t.queue = <<>> THEN t.table
    ELSE Propagate(Colour([t EXCEPT !.queue = Tail(@)], all_if,
                          Head(t.queue)[1], Head(t.queue)[2]),
                   all_if)

\* all_if: the Jump objects; last_if: a Jump object
get_or_and_table(jb, all_if, last_if) ==
    LET next == get_relative_offset(jb, last_if.start, 1) IN
    Propagate([table |-> [o \in {next, last_if.end} |-> IF o = last_if.end THEN "&&" ELSE "||"],
               queue |-> <<<<next, "||">>, <<last_if.end, "&&">>>>],
              all_if)

\* lines 436-438
Restate(a, if_jmp, last_statement) ==
    IF get_line(a, if_jmp.start) = -1 THEN a
    ELSE SetText(a, get_line(a, if_jmp.start),
                 Replace(a.translated[get_line(a, if_jmp.start)], "if", last_statement))

RECURSIVE Fuse(_, _, _, _)
\* the for loop of lines 429-440
Fuse(jb, all_if, and_or_table, last_statement) ==
    IF all_if = <<>> THEN jb
    ELSE LET if_jmp == jb.jumps[Head(all_if)] IN
         IF if_jmp.end \notin DOMAIN and_or_table
         THEN Fuse(jb, Tail(all_if), and_or_table, last_statement)
         ELSE Fuse(jump_done(Restate(IF and_or_table[if_jmp.end] = "&&"
                                     THEN invert_if_statement(jb, if_jmp) ELSE jb,
                                     if_jmp, last_statement),
                             if_jmp),
                   Tail(all_if), and_or_table, <<"\t", and_or_table[if_jmp.end]>>)

\* lines 442-444
OpenBlock(a, last_if) ==
    IF get_line(a, last_if.start) = -1 THEN a
    ELSE Append2(a, get_line(a, last_if.start), <<"\n", "{">>)

\* lines 446-455
CloseBlock(b, last_if) ==
    IF InTable(b, "Jump", last_if.end)
       /\ TableAt(b, "Jump", last_if.end).start # TableAt(b, "Jump", last_if.end).end
    THEN LET else_jump == TableAt(b, "Jump", last_if.end)
             else_start == get_line(b, else_jump.start)
         IN jump_done(close_section(IF else_start = -1 THEN b
                                    ELSE Append2(b, else_start,
                                                 <<"\n", "}", "\n", "else", "\n", "{">>),
                                    else_jump.start, else_jump.end).jb,
                      else_jump)
    ELSE close_section(b, last_if.start, last_if.end).jb

\* handle_if_statement from line 425 on: r = [jb, last_if] is what
\* get_last_if_in_statement leaves
IfStatement(r, first_if) ==
    LET last_if == r.jb.jumps[r.last_if]
        Chained(i) == first_if.start <= i.start /\ i.start <= last_if.start /\ i.start # i.end
        all_if == SelectIds(r.jb, Ifs(r.jb), Chained)
    IN CloseBlock(OpenBlock(Fuse(r.jb, all_if,
                                 get_or_and_table(r.jb, [i \in DOMAIN all_if |->
                                                            r.jb.jumps[all_if[i]]], last_if),
                                 <<"if">>),
                            last_if),
                  last_if)

\* lines 363-366 done: hung when the while loop never ends
Chain(jb, first_if, chain_end) ==
    IF chain_end = Id("hang", 0) THEN [jb EXCEPT !.hung = TRUE]
    ELSE IfStatement(get_last_if_in_statement(jb, chain_end), first_if)

\* handle_if_statement for an If edge
handle_if_statement(jb, first_if) ==
    IF first_if.start = first_if.end
    THEN LET first_line == get_line(jb, first_if.start) IN
         jump_done(IF first_line = -1 THEN jb
                   ELSE SetText(jb, first_line,
                                Replace(jb.translated[first_line], ")",
                                        <<")", " ", "{", "}", "\n">>)),
                   first_if)
    ELSE Chain(jb, first_if, LastIf(jb, Id("If", first_if.start), {}))

\* lines 459-462: switched is what handle_switch returned and left
OrIfStatement(switched, jb, jmp) ==
    IF switched.handled THEN switched.jb ELSE handle_if_statement(jb, jmp)

handle_if(jb, jmp) == OrIfStatement(handle_switch(jb, jmp), jb, jmp)

\* lines 464-467: no effect either way
handle_jump(jb, jmp) == jb

\* ---- expand_code_list, lines 503-516 ----
RECURSIVE Split(_, _)
\* text.split('\n'): part is the part being read
Split(text, part) ==
    IF text = <<>> THEN <<part>>
    ELSE IF Head(text) = "\n" THEN <<part>> \o Split(Tail(text), <<>>)
    ELSE Split(Tail(text), Append(part, Head(text)))

\* the CodeLines one instruction expands to: lines[0], then the others that are not empty
Expand(text) ==
    LET lines == Split(text, <<>>)
    IN <<Head(lines)>> \o SelectSeq(Tail(lines), LAMBDA l : l # <<>>)

RECURSIVE ExpandFrom(_, _)
ExpandFrom(jb, offs) ==
    IF offs = <<>> THEN <<>>
    ELSE Expand(jb.translated[Head(offs)]) \o ExpandFrom(jb, Tail(offs))

\* the texts of code_list as expand_code_list leaves it
expand_code_list(jb) == <<<<"{">>>> \o ExpandFrom(jb, jb.code_offset) \o <<<<"}">>>>

\* line 508: an instruction's own CodeLine keeps the first of its lines
FirstLines(jb) ==
    [jb EXCEPT !.translated = [o \in DOMAIN @ |-> Head(Split(@[o], <<>>))]]

\* ---- convert, lines 518-532 ----
\* jump_type_handle.get(jmp.type, lambda x: None)(jmp) for a jump that is not done
Handle(jb, jmp) ==
    LET seen == [jb EXCEPT !.g.dispatched = @ \cup {Id(jmp.type, jmp.start)}] IN
    IF jmp.type = "Loop" THEN handle_loop(seen, jmp)
    ELSE IF jmp.type = "Exception" THEN handle_exception(seen, jmp)
    ELSE IF jmp.type = "IntSwitch" THEN handle_int_switch_case(seen, jmp)
    ELSE IF jmp.type = "If" THEN handle_if(seen, jmp)
    ELSE IF jmp.type = "Jump" THEN handle_jump(seen, jmp)
    ELSE jb

RECURSIVE Dispatched(_, _)
\* the for loop of lines 528-531 from the jump it is at
Dispatched(jb, ids) ==
    IF ids = <<>> \/ jb.hung THEN jb
    ELSE Dispatched(IF jb.jumps[Head(ids)].done THEN jb ELSE Handle(jb, jb.jumps[Head(ids)]),
                    Tail(ids))

\* lines 525-532 behind get_all_jump_list: the object convert leaves
Converted(adjusted, ids) ==
    IF adjusted.raised THEN adjusted
    ELSE Dispatched(remove_if_js_receiver(adjusted), SortByStartEnd(adjusted, ids))

\* convert on the object the constructor leaves, up to expand_code_list
convert(jb) == Converted(AdjustEnds(jb, AllJumps(jb, JumpTypes)), AllJumps(jb, JumpTypes))

\* pc: [at, i]; i is the index of the for loop of line 528
At_(at, i) == [at |-> at, i |-> i]

\* lines 70-85; an exception leaves convert, which has no handler for it
get_all_jump_list ==
    /\ pc.at = "get_all_jump_list"
    /\ jump_blocks' = AdjustEnds(jump_blocks, AllJumps(jump_blocks, JumpTypes))
    /\ IF jump_blocks'.raised
       THEN /\ pc' = At_("raised", 0)
            /\ UNCHANGED jump_list
       ELSE /\ jump_list' = SortByStartEnd(jump_blocks', AllJumps(jump_blocks, JumpTypes))
            /\ pc' = At_("remove_if_js_receiver", 0)
    /\ UNCHANGED <<code_list, registered, pvars, fvars, svars>>

RemoveIfJSReceiver ==
    /\ pc.at = "remove_if_js_receiver"
    /\ jump_blocks' = remove_if_js_receiver(jump_blocks)
    /\ pc' = At_("for", 1)
    /\ UNCHANGED <<jump_list, code_list, registered, pvars, fvars, svars>>

\* the jump the for loop is at
Current == jump_blocks.jumps[jump_list[pc.i]]
Dispatching(type) ==
    /\ pc.at = "for" /\ pc.i <= Len(jump_list)
    /\ ~Current.done /\ Current.type = type

Dispatch ==
    /\ jump_blocks' = Handle(jump_blocks, Current)
    /\ pc' = IF jump_blocks'.hung THEN At_("hung", pc.i) ELSE At_("for", pc.i + 1)
    /\ UNCHANGED <<jump_list, code_list, registered, pvars, fvars, svars>>

\* `if jmp.done: continue`
SkipDone ==
    /\ pc.at = "for" /\ pc.i <= Len(jump_list)
    /\ Current.done
    /\ pc' = At_("for", pc.i + 1)
    /\ UNCHANGED <<jump_blocks, jump_list, code_list, registered, pvars, fvars, svars>>

HandleLoop == Dispatching("Loop") /\ Dispatch
HandleException == Dispatching("Exception") /\ Dispatch
HandleIntSwitch == Dispatching("IntSwitch") /\ Dispatch
HandleIf == Dispatching("If") /\ Dispatch
HandleJump == Dispatching("Jump") /\ Dispatch

ExpandCodeList ==
    /\ pc.at = "for" /\ pc.i > Len(jump_list)
    /\ code_list' = expand_code_list(jump_blocks)
    /\ jump_blocks' = FirstLines(jump_blocks)
    /\ pc' = At_("done", 0)
    /\ UNCHANGED <<jump_list, registered, pvars, fvars, svars>>

\* ---- what the translator hands over ----
Offsets == 0..MaxOffset
RECURSIVE UpTo(_)
UpTo(n) == IF n < 0 THEN <<>> ELSE Append(UpTo(n - 1), n)

\* the statements the opcode handlers write for conditional jumps, by the
\* three shapes invert_if_statement tells apart; other instructions give "s"
IfText(offset) ==
    IF offset % 3 = 0 THEN <<"if", " ", "(", "ACCU", ")">>
    ELSE IF offset % 3 = 1 THEN <<"if", " ", "(", "!", "ACCU", ")">>
    ELSE <<"if", " ", "(", "ACCU", " != ", "null", ")">>

Edges ==
    {Jump(t, s, e) : t \in {"Loop", "Exception", "If", "Jump", "IfJSReceiver"},
                     s \in Offsets, e \in Offsets}
    \cup UNION {{SwitchJump("IntSwitch", s, e, <<"switch ", "(", "ACCU", ")">>, l) :
                    l \in {e, MaxOffset}} : s \in Offsets, e \in Offsets}
    \cup {SwitchJump("IntSwitch", s, e, <<"case 0:">>, 0) : s \in Offsets, e \in Offsets}

RECURSIVE EdgeSets(_)
\* at most n edges, no two of a type at one start (a table has one entry per key)
EdgeSets(n) ==
    IF n = 0 THEN {{}}
    ELSE EdgeSets(n - 1) \cup
         UNION {{E \cup {e} : e \in {x \in Edges : \A y \in E :
                                                  ~(y.type = x.type /\ y.start = x.start)}} :
                E \in EdgeSets(n - 1)}

\* JumpBlocks.__init__ (lines 14-21) on the translator's code and tables; the
\* translator registers the edges of a type in the order of their starts
JumpBlocks(offsets, edges) ==
    [code_offset |-> offsets,
     translated |-> [o \in Range(offsets) |->
                        IF \E e \in edges : e.type = "If" /\ e.start = o THEN IfText(o)
                        ELSE <<"s">>],
     jumps |-> [id \in {Id(e.type, e.start) : e \in edges} |->
                   CHOOSE e \in edges : Id(e.type, e.start) = id],
     jump_table |-> [t \in Range(JumpTypes) |->
                        Sorted({e.start : e \in {x \in edges : x.type = t}})],
     hung |-> FALSE, raised |-> FALSE,
     g |-> [loops |-> {}, dispatched |-> {}]]

\* the instruction lists: every offset, one offset missing, no instruction
CodeLists == {UpTo(MaxOffset), SelectSeq(UpTo(MaxOffset), LAMBDA o : o # 1), <<>>}

\* translate.py lines 45-66: the handler table gives the Exception edges, the
\* instructions of the code give the others
Registrable(code) ==
    IF code = <<>> THEN {E \in EdgeSets(MaxEdges) : \A e \in E : e.type = "Exception"}
    ELSE EdgeSets(MaxEdges)

InitJump ==
    /\ \E code \in CodeLists :
          /\ registered \in Registrable(code)
          /\ jump_blocks = JumpBlocks(code, registered)
    /\ jump_list = <<>>
    /\ pc = At_("get_all_jump_list", 0)
    /\ code_list = <<>>
    /\ NoPrescan
    /\ gen = "start" /\ cur = NoneLine /\ nread = 0 /\ dialect = "pool"
    /\ repeat_last_line = FALSE /\ stack = <<>> /\ all_functions = <<>>
    /\ obs = [pending |-> FALSE, redelivered |-> FALSE, requested |-> FALSE,
              lastStored |-> 0, nframes |-> 0, topStarts |-> 0, topStored |-> 0, aborted |-> FALSE,
              blocks |-> <<>>, nblocks |-> 0, owner |-> <<>>, lineBlock |-> 0,
              foreign |-> FALSE, early |-> FALSE]
    /\ NoSimplification

NextJump ==
    \/ get_all_jump_list
    \/ RemoveIfJSReceiver
    \/ SkipDone
    \/ HandleLoop
    \/ HandleException
    \/ HandleIntSwitch
    \/ HandleIf
    \/ HandleJump
    \/ ExpandCodeList

SpecJump == InitJump /\ [][NextJump]_vars

----------------------------------------------------------------------------
(* Claims about the parser (SpecParse) *)

Finished == stack = <<>>
Records == Range(all_functions)

\* C1: every stored function record whose block had a 'Constant pool (size = N)'
\* header holds a pool of exactly N entries, and every index no entry assigned
\* holds the empty string -- whatever followed the header, end of input included.
C1_PoolHasDeclaredSize ==
    \A e \in Records :
        e.g.hdrN >= 0 =>
            /\ Len(e.sfi.const_pool[1]) = e.g.hdrN
            /\ \A i \in 0..(e.g.hdrN - 1) :
                  i \notin e.g.assigned => e.sfi.const_pool[1][i + 1] = EmptyStr

\* C4: when parsing has ended, every record that was entered from a
\* constant-pool entry followed by 'Start SharedFunctionInfo' has its outer
\* function in the registry; when neither block ended in the except branch the
\* outer record has another key, the nested record names that key as its
\* declarer, and the outer pool's slot holds the nested record's key.
C4_NestedDeclarer ==
    Finished =>
        \A r \in Records :
            (r.g.outer # 0 /\ ~r.g.raised) =>
                \E o \in Records :
                    /\ o.g.id = r.g.outer
                    /\ ~o.g.raised =>
                          /\ o.name # r.name
                          /\ r.sfi.declarer = o.name
                          /\ Len(o.sfi.const_pool[1]) > r.g.slot
                          /\ o.sfi.const_pool[1][r.g.slot + 1] = NameRef(r.name)

StrictlyIncreasing(code) ==
    \A i \in 1..(Len(code) - 1) : code[i].line_num < code[i + 1].line_num
Contiguous(code) ==
    \A i \in 1..(Len(code) - 1) : code[i + 1].line_num = code[i].line_num + 1

\* C5: in every stored record with bytecode the offsets are strictly increasing
\* and leave no hole between the smallest and the largest, and the instruction
\* kept at an offset is the first one the input gave for it.
C5_OffsetsContiguous ==
    \A e \in Records :
        LET code == e.sfi.code[1] IN
        code # <<>> =>
            /\ StrictlyIncreasing(code)
            /\ Contiguous(code)
            /\ \A f \in e.g.first : CodeLine(f[1], f[2]) \in Range(code)

\* C6: a raise inside a function block leaves a record of that block in the
\* registry with 0, [] and {} for whatever the block had not resolved; the
\* parse of the file is never aborted, and every top-level block opened is
\* stored: one store per 'Start SharedFunctionInfo' read by parse_file.
C6_FailureIsolated ==
    /\ ~obs.aborted
    /\ obs.lastStored # 0 => \E e \in Records : e.g.id = obs.lastStored
    /\ \A e \in Records :
          e.g.raised =>
              /\ "argument_count" \notin e.g.resolved => e.sfi.argument_count = Some(0)
              /\ "register_count" \notin e.g.resolved => e.sfi.register_count = Some(0)
              /\ "const_pool" \notin e.g.resolved => e.sfi.const_pool = Some(<<>>)
              /\ "exception_table" \notin e.g.resolved => e.sfi.exception_table = Some(<<>>)
              /\ "code" \notin e.g.resolved => e.sfi.code = Some(<<>>)
    /\ obs.topStored <= obs.topStarts
    /\ obs.topStarts <= obs.topStored + 1
    /\ Finished => obs.topStored = obs.topStarts
    /\ (stack # <<>> /\ Len(stack) = 1) => obs.topStored = obs.topStarts

\* C6 witness: a top-level block raised and a later top-level block is stored
C6_Witness ==
    /\ Finished
    /\ \E e1, e2 \in Records :
          /\ e1.g.raised /\ e1.g.id < e2.g.id /\ ~e2.g.raised
          /\ e1.sfi.declarer = NoName /\ e2.sfi.declarer = NoName
          /\ e2.sfi.argument_count = Some(1)

\* C7: a pushback is honoured by the next next(): the line comes again; and no
\* call asks for pushback of a line it received as a re-delivery.
C7_OneLinePushback ==
    /\ obs.pending => obs.redelivered
    /\ ~(obs.requested /\ obs.redelivered)

----------------------------------------------------------------------------
(* Claims about the prescan and the constants that use it (SpecFA) *)

\* the blocks of a file: a block's own lines lie between its Start and its End
BlockStarts == {i \in 0..(Len(fa_lines) - 1) : At(fa_lines, i) = StartFixedArray}
OwnLines(i) == (i + 1)..(FirstFrom(fa_lines, i + 1, IsEnd) - 1)
OwnAddress(i) ==
    IF i + 1 < Len(fa_lines) /\ rx_addr(At(fa_lines, i + 1)) THEN At(fa_lines, i + 1).a ELSE 0
OwnLength(i) ==
    LET ls == {j \in OwnLines(i) : rx_len(At(fa_lines, j))}
    IN IF ls = {} THEN -1 ELSE At(fa_lines, CHOOSE j \in ls : TRUE).a
Covers(l, k) ==
    \/ rx_range(l) /\ l.a <= k /\ k <= l.b
    \/ rx_single(l) /\ l.a = k

\* C2: a constant-pool entry 'idx: 0xADDR <FixedArray[n]>' whose ADDR the
\* prescan recorded resolves to the array literal of the recorded elements, and
\* resolves to the empty array only when ADDR is not in the table.
C2_RecordedArrayInlined ==
    \A o \in Range(fa_out) :
        (Len(o.entry) = 2 /\ o.entry[1] \in AddrTokens /\ o.entry[2] = "<FixedArray[3]>") =>
            LET ADDR == normalize_addr(o.entry[1]) IN
            /\ ADDR \in DOMAIN FIXED_ARRAYS => o.value = ArrayLiteral(FIXED_ARRAYS[ADDR])
            /\ o.value = EmptyArray => ADDR \notin DOMAIN FIXED_ARRAYS

\* C3: after the prescan, for every block with an address line of its own, a
\* length line of its own and an address no other block has, and every range
\* entry 'i-j: v' of it, the table has an array at the block's address that
\* reads back v at every k in i..j (below the length, and not written again by
\* a later entry of the block); and no array of the table has an element other
\* than 0 that an entry of the block at its address did not write.
C3_RangeReadsBack ==
    fa_i = -1 =>
        /\ \A i \in BlockStarts :
              (/\ OwnAddress(i) # 0 /\ OwnLength(i) >= 0
               /\ \A i2 \in BlockStarts \ {i} : OwnAddress(i2) # OwnAddress(i)) =>
                  \A j \in OwnLines(i) :
                      rx_range(At(fa_lines, j)) =>
                          /\ OwnAddress(i) \in DOMAIN FIXED_ARRAYS
                          /\ \A k \in (At(fa_lines, j).a)..(At(fa_lines, j).b) :
                                (/\ k < OwnLength(i)
                                 /\ \A j2 \in OwnLines(i) : j2 > j => ~Covers(At(fa_lines, j2), k)) =>
                                    /\ k < Len(FIXED_ARRAYS[OwnAddress(i)])
                                    /\ FIXED_ARRAYS[OwnAddress(i)][k + 1] = int(At(fa_lines, j).s)
        /\ \A a \in DOMAIN FIXED_ARRAYS :
              \E i \in BlockStarts :
                  /\ OwnAddress(i) = a
                  /\ \A k \in 1..Len(FIXED_ARRAYS[a]) :
                        FIXED_ARRAYS[a][k] # 0 =>
                            \E j \in OwnLines(i) :
                                /\ Covers(At(fa_lines, j), k - 1)
                                /\ int(At(fa_lines, j).s) = FIXED_ARRAYS[a][k]

\* the same, for files all of whose blocks have an address line and a length line
C3_WellFormedFiles ==
    (\A i \in BlockStarts : OwnAddress(i) # 0 /\ OwnLength(i) >= 0) => C3_RangeReadsBack

----------------------------------------------------------------------------
(* Claims about the reconstruction (SpecJump) *)

\* the edges registered with start = end
ZeroWidth == {e \in registered : e.start = e.end}
\* the object the constructor leaves when edge e is not registered and the
\* instructions carry the same texts
Unregistered(e) ==
    [JumpBlocks(jump_blocks.code_offset, registered \ {e}) EXCEPT
        !.translated = JumpBlocks(jump_blocks.code_offset, registered).translated]
Preprocessed == pc.at # "get_all_jump_list"

\* C8: once preprocessing is over every edge registered with start = end is
\* marked done and is out of its table, no handler is ever dispatched on it,
\* and when reconstruction has ended the text of every line is the text the
\* run without that edge leaves.
C8_ZeroWidthConsumed ==
    \A e \in ZeroWidth :
        /\ Preprocessed =>
              /\ jump_blocks.jumps[Id(e.type, e.start)].done
              /\ ~InTable(jump_blocks, e.type, e.start)
        /\ Id(e.type, e.start) \notin jump_blocks.g.dispatched
        /\ pc.at = "done" =>
              /\ code_list = expand_code_list(convert(Unregistered(e)))
              /\ jump_blocks.translated = FirstLines(convert(Unregistered(e))).translated

\* C8 when preprocessing did not raise
C8_ZeroWidthConsumedUnlessRaised ==
    ~jump_blocks.raised => C8_ZeroWidthConsumed

\* the conditional edge (s, t) and the degenerate unconditional edge (t, t)
\* are the only edges, and there is an instruction at s
OneIf(s, t) ==
    /\ s < t /\ s \in Range(jump_blocks.code_offset)
    /\ registered = {Jump("If", s, t), Jump("Jump", t, t)}
\* the instruction preceding t: the last one before t, the first one if none is
Preceding(t) ==
    LET before == {o \in Range(jump_blocks.code_offset) : o < t}
    IN IF before = {} THEN jump_blocks.code_offset[1] ELSE SetMax(before)
\* every handler has run, expand_code_list has not
Handled == pc.at = "for" /\ pc.i > Len(jump_list)
\* occurrences of a piece in the lines of the output
RECURSIVE CountLines(_, _)
CountLines(lines, piece) ==
    IF lines = <<>> THEN 0 ELSE Count(Head(lines), piece) + CountLines(Tail(lines), piece)

\* C9: when a conditional edge (s, t), s < t, and an unconditional edge (t, t)
\* are the only edges, preprocessing marks the unconditional edge done and
\* leaves every text as it was, no handler is dispatched on it, and when the
\* handlers have run the line at s is the condition with the one '{' of the
\* function, the line of the instruction preceding t holds the one '}', the
\* other lines are unchanged, and the output has no else.
C9_IfWithoutElse ==
    \A s, t \in Offsets :
        OneIf(s, t) =>
            /\ Preprocessed =>
                  /\ jump_blocks.jumps[Id("Jump", t)].done
                  /\ ~InTable(jump_blocks, "Jump", t)
                  /\ Id("Jump", t) \notin jump_blocks.g.dispatched
            /\ pc.at = "remove_if_js_receiver" =>
                  jump_blocks.translated = JumpBlocks(jump_blocks.code_offset, registered).translated
            /\ Handled =>
                  /\ Head(jump_blocks.translated[s]) = "if"
                  /\ Count(jump_blocks.translated[s], "{") = 1
                  /\ Count(jump_blocks.translated[Preceding(t)], "}") = 1
                  /\ CountAll(jump_blocks, "{") = 1
                  /\ CountAll(jump_blocks, "}") = 1
                  /\ CountAll(jump_blocks, "else") = 0
                  /\ \A o \in Range(jump_blocks.code_offset) \ {s, Preceding(t)} :
                        jump_blocks.translated[o] = <<"s">>
            /\ pc.at = "done" =>
                  /\ CountLines(code_list, "else") = 0
                  /\ CountLines(code_list, "if") = 1
                  /\ CountLines(code_list, "{") = 2
                  /\ CountLines(code_list, "}") = 2

\* the output of a function with a conditional edge (s, t), t not the next
\* instruction, and the degenerate edge (t, t)
C9_Witness ==
    /\ pc.at = "done"
    /\ \E s, t \in Offsets : OneIf(s, t) /\ s < Preceding(t)
    /\ jump_blocks.g.dispatched # {}

----------------------------------------------------------------------------
(* Simplification: view8.py and Simplify/simplify.py.                      *)
(* A text is a sequence of tokens, cut wherever the regular expressions of *)
(* simplify.py look: a register, a Scope[...] or Scope[...][n] access, a   *)
(* parenthesis, the ' = ' of an assignment, a blank, a literal, a word.    *)
(* A scope address is the string of the dump; "None" is Python's None.     *)
(* A dict is a function; <<>> is the empty dict.                           *)

MaxFuncs == 3      \* functions of a corpus that varies in its scope addresses
MaxText == 3       \* lines of a corpus that varies in its text, braces aside

Tok(k, s, n, slot) == [k |-> k, s |-> s, n |-> n, slot |-> slot]
Reg(s) == Tok("reg", s, 0, -1)                  \* ACCU, CASE_n, rn, an
Lit(s) == Tok("lit", s, 0, -1)                  \* a number, true, false
Str(s) == Tok("str", s, 0, -1)                  \* a quoted string
Word(s) == Tok("word", s, 0, -1)
Sp == Tok(" ", " ", 0, -1)
Assign == Tok("=", " = ", 0, -1)
LParen == Tok("(", "(", 0, -1)
RParen == Tok(")", ")", 0, -1)
\* Scope[CURRENT], Scope[CURRENT-steps], with [slot] unless slot = -1
ScopeCurrent(steps, slot) == Tok("Scope", "CURRENT", steps, slot)
\* Scope[idx], with [slot] unless slot = -1
ScopeNum(idx, slot) == Tok("Scope", "num", idx, slot)
\* Scope[base], Scope[base-steps] for a base that is no number and not
\* CURRENT, with [slot] unless slot = -1
ScopeOther(base, steps, slot) == Tok("Scope", base, steps, slot)

BraceOpen == <<Word("{")>>
BraceClose == <<Word("}")>>

\* dicts
Get(d, k, default) == IF k \in DOMAIN d THEN d[k] ELSE default
Put(d, k, v) == (k :> v) @@ d
Del(d, k) == [x \in DOMAIN d \ {k} |-> d[x]]
\* d1 | d2
Merge(d1, d2) == d2 @@ d1

NoAddr == "None"
\* _hex_to_int, lines 35-39, on the spellings of ScopeAddrs
hex_to_int(addr) ==
    CASE addr = "0x1a" -> 26
      [] addr = "0x1A" -> 26
      [] addr = "0x2b" -> 43
      [] OTHER -> 0

\* list(addrs): the addresses in the iteration order of the set
SortedAddrsUnsorted(addrs) ==
    {s \in [1..Cardinality(addrs) -> addrs] : \A i, j \in DOMAIN s : i < j => s[i] # s[j]}
\* sorted(addrs, key=_hex_to_int), line 70: the sort is stable and addrs is
\* a set of strings, whose iteration order is that of the hashes of the run;
\* addresses of equal value come out in any order
SortedAddrs(addrs) ==
    {s \in [1..Cardinality(addrs) -> addrs] :
        /\ \A i, j \in DOMAIN s : i < j => s[i] # s[j] /\ hex_to_int(s[i]) <= hex_to_int(s[j])}

\* lines 59-67, over the registry from its k-th function on
RECURSIVE Parents(_, _, _)
Parents(funcs, k, parent) ==
    IF k > Len(funcs) THEN parent
    ELSE Parents(funcs, k + 1,
                 IF funcs[k].scope_info_addr # NoAddr
                 THEN Put(parent, funcs[k].scope_info_addr, funcs[k].outer_scope_info_addr)
                 ELSE parent)
CollectAddrs(funcs) ==
    ({funcs[k].scope_info_addr : k \in DOMAIN funcs}
       \cup {funcs[k].outer_scope_info_addr : k \in DOMAIN funcs}) \ {NoAddr}

\* lines 71-72
Enumerate(sorted_addrs) ==
    [a \in Range(sorted_addrs) |-> CHOOSE i \in DOMAIN sorted_addrs : sorted_addrs[i] = a]

\* _ctx_for_scopeinfo, lines 77-86: the id and the table it leaves
ctx_for_scopeinfo(ctxid, scope_info) ==
    IF scope_info \in DOMAIN ctxid
    THEN [idx |-> ctxid[scope_info], certain |-> TRUE, ctxid |-> ctxid]
    ELSE LET new_id == IF DOMAIN ctxid = {} THEN 1
                       ELSE SetMax({ctxid[a] : a \in DOMAIN ctxid}) + 1
         IN  [idx |-> new_id, certain |-> TRUE, ctxid |-> Put(ctxid, scope_info, new_id)]

\* _ascend_scopeinfo, lines 89-96
RECURSIVE ascend_scopeinfo(_, _, _)
ascend_scopeinfo(parent, si, steps) ==
    IF steps = 0 THEN si
    ELSE IF si = NoAddr THEN NoAddr
    ELSE ascend_scopeinfo(parent, Get(parent, si, NoAddr), steps - 1)

\* ---- the texts of simplify_line ----
\* the SimplifyCode object o: sfi, cur_ctx_id, cur_scope_info, outer_scope_info,
\* line_index, tab_level, code (the list it was given, sfi.code)
\* the globals it reads and writes travel as g: ctxid, env, heap (the Register
\* objects, which the dicts of the blocks share)

\* ContextStack.context_stack (Simplify/function_context_stack.py, line 5):
\* nothing calls add_new_context, the dict stays empty
context_stack == <<>>
\* ContextStack.get_context, lines 16-20
RECURSIVE get_context(_, _)
get_context(current, steps) ==
    IF steps = 0 THEN current ELSE get_context(Get(context_stack, current, 0), steps - 1)

\* _resolve_scope_expr_to_index, lines 217-270, for 'n', 'CURRENT', 'CURRENT-n'
\* and for another base with or without '-n' (reg_scope['current_context'] is
\* the id simplify_translated_bytecode gave the function, line 474)
resolve_scope_expr_to_index(o, parent, ctxid, tok, prefer_outer_for_slot) ==
    IF tok.s = "num" THEN [idx |-> tok.n, certain |-> TRUE, ctxid |-> ctxid]
    ELSE IF tok.s # "CURRENT"
    THEN [idx |-> get_context(o.cur_ctx_id, tok.n), certain |-> o.cur_ctx_id # 0, ctxid |-> ctxid]
    ELSE IF tok.n = 0
    THEN IF prefer_outer_for_slot /\ o.outer_scope_info # NoAddr
         THEN ctx_for_scopeinfo(ctxid, o.outer_scope_info)
         ELSE [idx |-> o.cur_ctx_id, certain |-> o.cur_ctx_id # 0, ctxid |-> ctxid]
    ELSE IF ascend_scopeinfo(parent, o.cur_scope_info, tok.n) = NoAddr
         THEN [idx |-> 0, certain |-> FALSE, ctxid |-> ctxid]
         ELSE ctx_for_scopeinfo(ctxid, ascend_scopeinfo(parent, o.cur_scope_info, tok.n))

\* repl, lines 296-314
ScopeRepl(tok, r) ==
    IF ~r.certain \/ r.idx = 0 THEN tok ELSE ScopeNum(r.idx, tok.slot)

\* lines 279-280: the line opens with 'Scope[...][n] ='
LhsMatch(line) ==
    Len(line) >= 2 /\ line[1].k = "Scope" /\ line[1].slot # -1 /\ line[2].k = "="

ScopeStep(acc, tok, r) == [line |-> Append(acc.line, ScopeRepl(tok, r)), ctxid |-> r.ctxid]

\* pattern.sub(repl, line), line 316, from the i-th token on
RECURSIVE ScopeSub(_, _, _, _, _)
ScopeSub(o, parent, line, i, acc) ==
    IF i > Len(line) THEN acc
    ELSE IF line[i].k # "Scope"
    THEN ScopeSub(o, parent, line, i + 1, [acc EXCEPT !.line = Append(@, line[i])])
    ELSE ScopeSub(o, parent, line, i + 1,
                  ScopeStep(acc, line[i],
                            resolve_scope_expr_to_index(o, parent, acc.ctxid, line[i],
                                line[i].slot # -1 /\ ~(LhsMatch(line) /\ i = 1))))

\* lines 272-323
replace_scope_stack_with_idx(o, parent, ctxid, line) ==
    ScopeSub(o, parent, line, 1, [line |-> <<>>, ctxid |-> ctxid])

\* _inline_scope_slot_reads_in_text, lines 338-351
RECURSIVE inline_scope_slot_reads_in_text(_, _)
inline_scope_slot_reads_in_text(env, text) ==
    IF text = <<>> THEN <<>>
    ELSE (IF /\ Head(text).k = "Scope" /\ Head(text).s = "num" /\ Head(text).slot # -1
             /\ <<Head(text).n, Head(text).slot>> \in DOMAIN env
          THEN env[<<Head(text).n, Head(text).slot>>]
          ELSE <<Head(text)>>)
         \o inline_scope_slot_reads_in_text(env, Tail(text))

\* self.code[idx].visible = flag for the indices idxs (counted from 0)
SetVisible(code, idxs, flag) ==
    [i \in DOMAIN code |-> IF i - 1 \in idxs THEN [code[i] EXCEPT !.visible = flag] ELSE code[i]]

\* replace_reg, lines 326-335: the code and the text it leaves for one register
ReplaceReg(code, heap, reg_scope, reg) ==
    IF reg \notin DOMAIN reg_scope THEN [code |-> code, text |-> <<reg>>]
    ELSE IF ~heap[reg_scope[reg]].was_overwritten
    THEN [code |-> SetVisible(code, {heap[reg_scope[reg]].all_initialized_index[1]}, FALSE),
          text |-> heap[reg_scope[reg]].value]
    ELSE [code |-> SetVisible(code, Range(heap[reg_scope[reg]].all_initialized_index), TRUE),
          text |-> <<reg>>]

RegStep(acc, r) == [code |-> r.code, text |-> acc.text \o r.text]

\* replace_reg_with_constant, lines 325-336, from the i-th token on
RECURSIVE RegSub(_, _, _, _, _)
RegSub(heap, reg_scope, line, i, acc) ==
    IF i > Len(line) THEN acc
    ELSE IF line[i].k # "reg"
    THEN RegSub(heap, reg_scope, line, i + 1, [acc EXCEPT !.text = Append(@, line[i])])
    ELSE RegSub(heap, reg_scope, line, i + 1,
                RegStep(acc, ReplaceReg(acc.code, heap, reg_scope, line[i])))

replace_reg_with_constant(code, heap, reg_scope, line) ==
    RegSub(heap, reg_scope, line, 1, [code |-> code, text |-> <<>>])

\* the words made of letters
Identifiers == {"return", "foo", "PushContext", "PopContext"}

\* re.search(r"[\w\]]\(", value), line 133: a '(' next to a word character or a ']'
CallShaped(value) ==
    \E i \in 2..Len(value) :
        /\ value[i].k = "("
        /\ \/ value[i - 1].k \in {"reg", "lit", "Scope"}
           \/ value[i - 1].k = "word" /\ value[i - 1].s \in Identifiers

RECURSIVE SkipParens(_)
SkipParens(value) ==
    IF value # <<>> /\ Head(value).k = "(" THEN SkipParens(Tail(value)) ELSE value

\* the same with line 131 for every register
reg_is_constant_unchecked(reg, value) == reg.k \in {"reg", "Scope"}
\* reg_is_constant, lines 130-139 (no text of the model has the shape of line 137)
reg_is_constant(reg, value) ==
    IF reg.k = "reg" /\ reg.s \in {"ACCU", "CASE_0"} THEN TRUE
    ELSE IF CallShaped(value) THEN FALSE
    ELSE SkipParens(value) # <<>> /\ Head(SkipParens(value)).k \in {"Scope", "lit"}
\* is_reg_defined_in_reg_value, lines 151-157
is_reg_defined_in_reg_value(reg, value) == \E i \in DOMAIN value : value[i] = reg

\* val.strip()
RECURSIVE LStrip(_)
LStrip(text) == IF text # <<>> /\ Head(text).k = " " THEN LStrip(Tail(text)) ELSE text
RECURSIVE RStrip(_)
RStrip(text) == IF text # <<>> /\ Last(text).k = " " THEN RStrip(Front(text)) ELSE text
Strip(text) == RStrip(LStrip(text))

\* the tokens written with the characters of line 176
SimpleTok(tok) ==
    \/ tok.k \in {"reg", "lit", "str", "Scope"}
    \/ tok.k = "word" /\ tok.s \in Identifiers
\* the same without lines 181-182 and with the parentheses among the characters of line 176
is_simple_slot_value_parens(val) ==
    /\ Strip(val) # <<>>
    /\ \A i \in DOMAIN Strip(val) : SimpleTok(Strip(val)[i]) \/ Strip(val)[i].k \in {"(", ")"}
\* _is_simple_slot_value, lines 176-183
is_simple_slot_value(val) ==
    /\ Strip(val) # <<>>
    /\ \A i \in DOMAIN Strip(val) : SimpleTok(Strip(val)[i])

\* class Register, lines 112-116
Register(value, init_index, was_overwritten) ==
    [value |-> value, was_overwritten |-> was_overwritten, all_initialized_index |-> <<init_index>>]

Overwrite(heap, ids) ==
    [i \in DOMAIN heap |-> IF i \in ids THEN [heap[i] EXCEPT !.was_overwritten = TRUE] ELSE heap[i]]

\* change_context, lines 207-215
change_context(line) ==
    IF \E i \in DOMAIN line : line[i] = Word("PushContext")
    THEN <<Reg("ACCU"), Assign, ScopeCurrent(1, -1)>>
    ELSE <<Reg("ACCU"), Assign, ScopeCurrent(0, -1)>>

\* lines 355-356
ContextLine(line) ==
    IF \E i \in DOMAIN line : line[i] \in {Word("PushContext"), Word("PopContext")}
    THEN change_context(line) ELSE line

\* re.match of line 363
MAssign(line) ==
    /\ Len(line) >= 3
    /\ line[2].k = "="
    /\ \/ line[1].k = "reg"
       \/ line[1].k = "Scope" /\ line[1].s = "num" /\ line[1].slot # -1

\* A block of simplify_block is b: reg_scope, prev_reg_scope, overwritten_regs,
\* block_type.  simplify_line works on
\*   e: ctxid (SCOPE_CTXID), env (SCOPE_SLOT_ENV), heap, code, b
\* and leaves in e.out the line it returns.

\* lines 366-370: rr is what replace_reg_with_constant left
NotAssigned(e, rr) == [e EXCEPT !.code = rr.code, !.out = rr.text]

\* lines 383-387
Redefine(e, lhs, line_index) ==
    [e EXCEPT
       !.b.reg_scope = IF lhs \in DOMAIN @ THEN Del(@, lhs) ELSE @,
       !.heap = IF lhs \in DOMAIN e.b.prev_reg_scope
                THEN Overwrite(@, {e.b.prev_reg_scope[lhs]}) ELSE @,
       !.b.overwritten_regs = IF lhs \in DOMAIN e.b.prev_reg_scope
                              THEN Put(@, lhs, line_index) ELSE @]

\* lines 388-392
Invalidate(e, lhs) ==
    [e EXCEPT !.heap = Overwrite(@, {e.b.reg_scope[k] : k \in
                          {x \in DOMAIN e.b.reg_scope :
                              is_reg_defined_in_reg_value(lhs, e.heap[e.b.reg_scope[x]].value)}})]

\* lines 393-394
Record(e, lhs, rhs2, line_index) ==
    IF reg_is_constant(lhs, rhs2)
    THEN [e EXCEPT !.heap = Append(@, Register(rhs2, line_index, FALSE)),
                   !.b.reg_scope = Put(@, lhs, Len(e.heap) + 1)]
    ELSE e

\* lines 397-409
RecordSlot(e, lhs, rhs2) ==
    IF lhs.k # "Scope" THEN e
    ELSE IF is_simple_slot_value(rhs2)
    THEN [e EXCEPT !.env = Put(@, <<lhs.n, lhs.slot>>, rhs2)]
    ELSE [e EXCEPT !.env = IF <<lhs.n, lhs.slot>> \in DOMAIN @
                           THEN Del(@, <<lhs.n, lhs.slot>>) ELSE @]

\* lines 373-411: rr is what replace_reg_with_constant left of the right-hand side
Assigned(e, lhs, rr, line_index) ==
    [RecordSlot(
        Record(Invalidate(Redefine([e EXCEPT !.code = rr.code], lhs, line_index), lhs),
               lhs, rr.text, line_index),
        lhs, rr.text)
     EXCEPT !.out = <<lhs, Assign>> \o rr.text]

\* lines 360-411: r is what replace_scope_stack_with_idx left
Simplified(e, r, line_index) ==
    IF ~MAssign(r.line)
    THEN NotAssigned([e EXCEPT !.ctxid = r.ctxid],
            replace_reg_with_constant(e.code, e.heap, e.b.reg_scope,
                inline_scope_slot_reads_in_text(e.env, r.line)))
    ELSE Assigned([e EXCEPT !.ctxid = r.ctxid], r.line[1],
            replace_reg_with_constant(e.code, e.heap, e.b.reg_scope,
                inline_scope_slot_reads_in_text(e.env, Strip(SubSeq(r.line, 3, Len(r.line))))),
            line_index)

\* simplify_line, lines 353-411
simplify_line(o, parent, e, line) ==
    Simplified(e, replace_scope_stack_with_idx(o, parent, e.ctxid, ContextLine(line)),
               o.line_index)

\* get_block_type, lines 119-127: the keywords are looked for in the order
\* try, catch, while, ...; of the texts of the model only 'while (true)' has one
get_block_type(idx, lines) ==
    IF idx = 0 THEN "function"
    ELSE IF \E i \in DOMAIN lines[idx].decompiled : lines[idx].decompiled[i] = Word("while (true)")
    THEN "loop"
    ELSE "unknown"

\* create_loop_reg_scope, lines 160-163: the new objects go to the end of the
\* heap, in the order of keys
RECURSIVE LoopScope(_, _, _, _)
LoopScope(heap, prev_reg_scope, keys, reg_scope) ==
    IF keys = {} THEN [heap |-> heap, reg_scope |-> reg_scope]
    ELSE LET k == CHOOSE x \in keys : TRUE IN
         LoopScope(Append(heap, Register(<<>>, heap[prev_reg_scope[k]].all_initialized_index[1], TRUE)),
                   prev_reg_scope, keys \ {k}, Put(reg_scope, k, Len(heap) + 1))
create_loop_reg_scope(heap, prev_reg_scope) ==
    LoopScope(heap, prev_reg_scope, DOMAIN prev_reg_scope, <<>>)

\* close_loop_reg_scope, lines 166-172
Reassigned(heap, prev_reg_scope, reg_scope) ==
    {k \in DOMAIN reg_scope :
        /\ heap[reg_scope[k]].was_overwritten
        /\ Len(heap[reg_scope[k]].all_initialized_index) > 1
        /\ k \in DOMAIN prev_reg_scope
        /\ ~heap[prev_reg_scope[k]].was_overwritten}
close_loop_reg_scope(heap, prev_reg_scope, reg_scope) ==
    [i \in DOMAIN heap |->
        IF \E k \in Reassigned(heap, prev_reg_scope, reg_scope) : prev_reg_scope[k] = i
        THEN LET k == CHOOSE x \in Reassigned(heap, prev_reg_scope, reg_scope) :
                         prev_reg_scope[x] = i
             IN  [heap[i] EXCEPT !.was_overwritten = TRUE,
                                 !.all_initialized_index =
                                     @ \o Tail(heap[reg_scope[k]].all_initialized_index)]
        ELSE heap[i]]

\* lines 441-442
AppendOverwritten(heap, prev_reg_scope, overwritten_regs) ==
    [i \in DOMAIN heap |->
        IF \E k \in DOMAIN overwritten_regs : prev_reg_scope[k] = i
        THEN LET k == CHOOSE x \in DOMAIN overwritten_regs : prev_reg_scope[x] = i
             IN  [heap[i] EXCEPT !.all_initialized_index = Append(@, overwritten_regs[k])]
        ELSE heap[i]]

\* lines 414-419: the block simplify_block opens at line idx of the code
NewBlock(heap, code, idx, prev_reg_scope) ==
    IF get_block_type(idx, code) = "loop"
    THEN [heap |-> create_loop_reg_scope(heap, prev_reg_scope).heap,
          b |-> [reg_scope |-> create_loop_reg_scope(heap, prev_reg_scope).reg_scope,
                 prev_reg_scope |-> prev_reg_scope, overwritten_regs |-> <<>>,
                 block_type |-> "loop"]]
    ELSE [heap |-> heap,
          b |-> [reg_scope |-> prev_reg_scope, prev_reg_scope |-> prev_reg_scope,
                 overwritten_regs |-> <<>>, block_type |-> get_block_type(idx, code)]]

\* add_simplified_line, lines 204-205
add_simplified_line(code, line_index, tab_level, line) ==
    [code EXCEPT ![line_index + 1].decompiled = line,
                 ![line_index + 1].tabs = IF line = <<>> THEN 0 ELSE tab_level]

\* lines 436-442: the heap when the block b is left
LeaveBlock(heap, b) ==
    AppendOverwritten(
        IF b.block_type = "loop" THEN close_loop_reg_scope(heap, b.prev_reg_scope, b.reg_scope)
        ELSE heap,
        b.prev_reg_scope, b.overwritten_regs)

\* ---- the run ----
\* class CodeLine (Translate/jump_blocks.py, lines 3-10), with the tabs that
\* add_simplified_line writes before the text
Translated(text) == [translated |-> text, decompiled |-> <<>>, tabs |-> 0, visible |-> TRUE]

\* the record of a function: what parse_shared_function_info stored and the
\* code the translation left
Sfi(name, declarer, si, oi, code) ==
    [name |-> name, declarer |-> declarer, scope_info_addr |-> si,
     outer_scope_info_addr |-> oi, code |-> code]

\* expand_code_list (Translate/jump_blocks.py, lines 504 and 516) wraps the lines
Wrapped(body) == <<Translated(BraceOpen)>> \o body \o <<Translated(BraceClose)>>

\* depth_of, lines 501-506: the loop does not end on a cycle of addresses (-1)
RECURSIVE depth_of(_, _, _, _)
depth_of(parent, cur_, d, visited) ==
    IF cur_ = NoAddr THEN d
    ELSE IF cur_ \in visited THEN -1
    ELSE depth_of(parent, Get(parent, cur_, NoAddr), d + 1, visited \cup {cur_})

\* funcs.sort(key=...), line 509: the functions (by their place in the
\* registry) in ascending depth, those of one depth in the order of the registry
RECURSIVE SortByDepth(_, _)
SortByDepth(depths, todo) ==
    IF todo = {} THEN <<>>
    ELSE LET f == CHOOSE x \in todo :
                     \A y \in todo : depths[x] < depths[y] \/ (depths[x] = depths[y] /\ x <= y)
         IN  <<f>> \o SortByDepth(depths, todo \ {f})
Depths(parent, funcs) ==
    [k \in DOMAIN funcs |-> depth_of(parent, funcs[k].outer_scope_info_addr, 0, {})]

\* ContextStack.get_func_context (Simplify/function_context_stack.py, lines
\* 38-54): the context and the name -> context dict it leaves
RECURSIVE FromDeclarer(_, _, _, _)
FromDeclarer(fcs, name, cur_, visited) ==
    IF cur_ = NoAddr \/ cur_ \in visited
    THEN [ctx |-> 0, fcs |-> [fcs EXCEPT !.function_name_context = Put(@, name, 0)]]
    ELSE IF cur_ \in DOMAIN fcs.function_name_context
    THEN [ctx |-> fcs.function_name_context[cur_],
          fcs |-> [fcs EXCEPT !.function_name_context = Put(@, name, fcs.function_name_context[cur_])]]
    ELSE FromDeclarer(fcs, name, Get(fcs.function_declarer, cur_, NoAddr), visited \cup {cur_})
get_func_context(fcs, name, declarer) ==
    IF name \in DOMAIN fcs.function_name_context
    THEN [ctx |-> fcs.function_name_context[name], fcs |-> fcs]
    ELSE FromDeclarer(fcs, name, declarer, {})

\* _current_ctx_for_function, lines 99-109: the id and what it leaves of the
\* id table and of the context stack
current_ctx_for_function(ctxid, fcs, sfi) ==
    IF sfi.scope_info_addr # NoAddr
    THEN [ctx |-> ctx_for_scopeinfo(ctxid, sfi.scope_info_addr).idx,
          ctxid |-> ctx_for_scopeinfo(ctxid, sfi.scope_info_addr).ctxid, fcs |-> fcs]
    ELSE [ctx |-> get_func_context(fcs, sfi.name, sfi.declarer).ctx,
          ctxid |-> ctxid, fcs |-> get_func_context(fcs, sfi.name, sfi.declarer).fcs]

SetDefault(d, k, v) == IF k \in DOMAIN d THEN d ELSE Put(d, k, v)

\* lines 455-457, with ContextStack.add_function_context (lines 22-36)
Bind(fcs, sfi, ctx_id) ==
    [function_name_context |->
        IF sfi.name \notin DOMAIN fcs.function_name_context
           \/ (fcs.function_name_context[sfi.name] = 0 /\ ctx_id # 0)
        THEN Put(fcs.function_name_context, sfi.name, ctx_id)
        ELSE fcs.function_name_context,
     function_declarer |->
        SetDefault(fcs.function_declarer, sfi.name,
                   IF sfi.declarer # NoAddr THEN sfi.declarer ELSE sfi.name)]

\* the SimplifyCode object (lines 187-195) over the function at place f of
\* the registry, inside the blocks `blocks`, the innermost last
SimplifyCode(f, sfi, ctx_id) ==
    [f |-> f, cur_ctx_id |-> ctx_id, cur_scope_info |-> sfi.scope_info_addr,
     outer_scope_info |-> sfi.outer_scope_info_addr,
     line_index |-> 0, tab_level |-> 0, blocks |-> <<>>, heap |-> <<>>]

Where(a, k, n, funcs) == [at |-> a, k |-> k, n |-> n, funcs |-> funcs]
NoEvent == [kind |-> "none"]

NoHistory == [decompiled |-> <<>>, order |-> <<>>, envs |-> <<>>, last |-> NoEvent, first |-> <<>>]

\* the globals of simplify.py and function_context_stack.py when the modules are loaded
FreshGlobals ==
    /\ SCOPEINFO_PARENT = <<>> /\ SCOPE_CTXID = <<>> /\ SCOPEINFO_INIT = FALSE
    /\ SCOPE_SLOT_ENV = <<>>
    /\ function_context_stack = [function_name_context |-> <<>>, function_declarer |-> <<>>]

\* main (view8.py, lines 53-57) after parse_file returned the registry corp
Parsed(corp) ==
    /\ corpus = corp
    /\ all_functions = corp
    /\ FreshGlobals
    /\ spc = Where("decompile", 1, 1, <<>>)
    /\ simpl = <<>>
    /\ hist = NoHistory
    /\ NoPrescan /\ NoReconstruction
    /\ gen = "start" /\ cur = NoneLine /\ nread = 0 /\ dialect = "pool"
    /\ repeat_last_line = FALSE /\ stack = <<>>
    /\ obs = [pending |-> FALSE, redelivered |-> FALSE, requested |-> FALSE,
              lastStored |-> 0, nframes |-> 0, topStarts |-> 0, topStored |-> 0, aborted |-> FALSE,
              blocks |-> <<>>, nblocks |-> 0, owner |-> <<>>, lineBlock |-> 0,
              foreign |-> FALSE, early |-> FALSE]

idle == <<gen, cur, nread, dialect, repeat_last_line, stack, obs, fvars, jvars, corpus>>

\* decompile (view8.py, lines 6-17), one function of the loop: the call of
\* line 10 raises when the translation of the function does, which leaves the
\* function without code; the exception is caught and the loop goes on
decompile ==
    /\ spc.at = "decompile" /\ spc.k <= Len(all_functions)
    /\ hist' = [hist EXCEPT !.decompiled =
                   Append(@, [name |-> all_functions[spc.k].name,
                              raised |-> all_functions[spc.k].code = <<>>])]
    /\ spc' = [spc EXCEPT !.k = @ + 1]
    /\ UNCHANGED <<all_functions, SCOPEINFO_PARENT, SCOPE_CTXID, SCOPEINFO_INIT,
                   SCOPE_SLOT_ENV, function_context_stack, simpl, idle>>

\* simplify_all_in_scope_order, lines 486-509, with _init_scopeinfo_graph
\* (lines 42-74): the graph, the ids, the order of the functions
simplify_all_in_scope_order ==
    /\ spc.at = "decompile" /\ spc.k > Len(all_functions)
    /\ IF SCOPEINFO_INIT
       THEN UNCHANGED <<SCOPEINFO_PARENT, SCOPE_CTXID, SCOPEINFO_INIT>>
       ELSE /\ SCOPEINFO_PARENT' = Parents(all_functions, 1, SCOPEINFO_PARENT)
            /\ \E sorted_addrs \in SortedAddrs(CollectAddrs(all_functions)) :
                  SCOPE_CTXID' = Enumerate(sorted_addrs) @@ SCOPE_CTXID
            /\ SCOPEINFO_INIT' = TRUE
    /\ spc' = IF \E k \in DOMAIN all_functions : Depths(SCOPEINFO_PARENT', all_functions)[k] = -1
              THEN Where("hung", 0, spc.n, <<>>)
              ELSE Where("function", 1, spc.n,
                         SortByDepth(Depths(SCOPEINFO_PARENT', all_functions),
                                     DOMAIN all_functions))
    /\ UNCHANGED <<all_functions, SCOPE_SLOT_ENV, function_context_stack, simpl, hist, idle>>

\* the function the pass is at
Sfi_ == all_functions[spc.funcs[spc.k]]

\* simplify_translated_bytecode, lines 447-477, up to the loop of the
\* outermost block (lines 414-420); on a function without code line 205 raises
\* and nothing catches the exception
simplify_translated_bytecode ==
    /\ spc.at = "function" /\ spc.k <= Len(spc.funcs)
    /\ LET c == current_ctx_for_function(SCOPE_CTXID, function_context_stack, Sfi_)
           nb == NewBlock(<<>>, Sfi_.code, 0, <<>>)
       IN  /\ SCOPE_CTXID' = c.ctxid
           /\ function_context_stack' = Bind(c.fcs, Sfi_, c.ctx)
           /\ hist' = [hist EXCEPT !.order = Append(@, Sfi_.name), !.last = NoEvent]
           /\ IF Sfi_.code = <<>>
              THEN /\ simpl' = SimplifyCode(spc.funcs[spc.k], Sfi_, c.ctx)
                   /\ spc' = [spc EXCEPT !.at = "raised"]
                   /\ UNCHANGED all_functions
              ELSE /\ simpl' = [SimplifyCode(spc.funcs[spc.k], Sfi_, c.ctx) EXCEPT
                                   !.tab_level = 1, !.blocks = <<nb.b>>, !.heap = nb.heap]
                   /\ spc' = [spc EXCEPT !.at = "block"]
                   /\ all_functions' = [all_functions EXCEPT ![spc.funcs[spc.k]].code =
                                           add_simplified_line(@, 0, 0, BraceOpen)]
    /\ UNCHANGED <<SCOPEINFO_PARENT, SCOPEINFO_INIT, SCOPE_SLOT_ENV, idle>>

\* get_next_line, lines 197-202
TheCode == all_functions[simpl.f].code
HasNext == simpl.line_index + 1 < Len(TheCode)
NextText == TheCode[simpl.line_index + 2].translated

\* the registers of a dict that a read is replaced for, with the texts
Substitutable(heap, reg_scope) ==
    [reg \in {x \in DOMAIN reg_scope : ~heap[reg_scope[x]].was_overwritten} |->
        heap[reg_scope[reg]].value]

\* what simplify_line was given and what it left (history)
LineEvent(o, line, r, e) ==
    [kind |-> "line", f |-> o.f, line_index |-> o.line_index, line |-> line,
     resolved |-> r.line, out |-> e.out, env |-> SCOPE_SLOT_ENV,
     known |-> Substitutable(o.heap, Last(o.blocks).reg_scope),
     hidden |-> {i \in DOMAIN e.code : ~e.code[i].visible /\ TheCode[i].visible}]

\* lines 433-434: o is the object after get_next_line, e what simplify_line left
Simplify(o, line, r, e) ==
    /\ all_functions' = [all_functions EXCEPT ![o.f].code =
                            add_simplified_line(e.code, o.line_index, o.tab_level, e.out)]
    /\ SCOPE_CTXID' = e.ctxid
    /\ SCOPE_SLOT_ENV' = e.env
    /\ simpl' = [o EXCEPT !.heap = e.heap, !.blocks = Append(Front(@), e.b)]
    /\ hist' = [hist EXCEPT !.last = LineEvent(o, line, r, e)]

Before(o) ==
    [ctxid |-> SCOPE_CTXID, env |-> SCOPE_SLOT_ENV, heap |-> o.heap, code |-> TheCode,
     b |-> Last(o.blocks), out |-> <<>>]

\* one turn of the loop of simplify_block (lines 422-434) on a line that is
\* neither '{' nor '}'
SimplifyLine ==
    /\ spc.at = "block" /\ HasNext /\ NextText \notin {BraceOpen, BraceClose}
    /\ Simplify([simpl EXCEPT !.line_index = @ + 1], NextText,
                replace_scope_stack_with_idx([simpl EXCEPT !.line_index = @ + 1],
                    SCOPEINFO_PARENT, SCOPE_CTXID, ContextLine(NextText)),
                simplify_line([simpl EXCEPT !.line_index = @ + 1], SCOPEINFO_PARENT,
                              Before(simpl), NextText))
    /\ UNCHANGED <<SCOPEINFO_PARENT, SCOPEINFO_INIT, function_context_stack, spc, idle>>

\* the loop of simplify_block on '{': the call of line 431 up to its own loop
simplify_block ==
    /\ spc.at = "block" /\ HasNext /\ NextText = BraceOpen
    /\ LET nb == NewBlock(simpl.heap, TheCode, simpl.line_index + 1,
                          Merge(Last(simpl.blocks).prev_reg_scope, Last(simpl.blocks).reg_scope))
       IN  /\ simpl' = [simpl EXCEPT !.line_index = @ + 1, !.tab_level = @ + 1,
                                     !.blocks = Append(@, nb.b), !.heap = nb.heap]
           /\ all_functions' = [all_functions EXCEPT ![simpl.f].code =
                  add_simplified_line(@, simpl.line_index + 1, simpl.tab_level, BraceOpen)]
    /\ hist' = [hist EXCEPT !.last = NoEvent]
    /\ UNCHANGED <<SCOPEINFO_PARENT, SCOPE_CTXID, SCOPEINFO_INIT, SCOPE_SLOT_ENV,
                   function_context_stack, spc, idle>>

\* the loop of simplify_block on '}': lines 436-444, and lines 479-483 and the
\* next turn of the loop of line 511 when the block is the outermost one
EndBlock ==
    /\ spc.at = "block" /\ HasNext /\ NextText = BraceClose
    /\ simpl' = [simpl EXCEPT !.line_index = @ + 1, !.tab_level = @ - 1,
                              !.blocks = Front(@),
                              !.heap = LeaveBlock(@, Last(simpl.blocks))]
    /\ all_functions' = [all_functions EXCEPT ![simpl.f].code =
           add_simplified_line(@, simpl.line_index + 1, simpl.tab_level - 1, BraceClose)]
    /\ IF Len(simpl.blocks) = 1
       THEN /\ spc' = [spc EXCEPT !.at = "function", !.k = @ + 1]
            /\ hist' = [hist EXCEPT !.last = NoEvent,
                           !.envs = Append(@, [name |-> all_functions[simpl.f].name,
                                               env |-> SCOPE_SLOT_ENV,
                                               stopped |-> simpl.line_index + 1 # Len(TheCode) - 1])]
       ELSE /\ hist' = [hist EXCEPT !.last = NoEvent]
            /\ UNCHANGED spc
    /\ UNCHANGED <<SCOPEINFO_PARENT, SCOPE_CTXID, SCOPEINFO_INIT, SCOPE_SLOT_ENV,
                   function_context_stack, idle>>

\* get_next_line past the last line: line 201 raises IndexError, which leaves
\* simplify_block, simplify_translated_bytecode and the loop of line 511
NoMoreLines ==
    /\ spc.at = "block" /\ ~HasNext
    /\ simpl' = [simpl EXCEPT !.line_index = @ + 1]
    /\ spc' = [spc EXCEPT !.at = "raised"]
    /\ hist' = [hist EXCEPT !.last = NoEvent]
    /\ UNCHANGED <<all_functions, SCOPEINFO_PARENT, SCOPE_CTXID, SCOPEINFO_INIT,
                   SCOPE_SLOT_ENV, function_context_stack, idle>>

\* the run is over: the pass returned, or an exception left it
Returned == spc.at = "function" /\ spc.k > Len(spc.funcs)
Over == Returned \/ spc.at = "raised"

\* what a run leaves
Outcome ==
    [keys |-> [k \in DOMAIN all_functions |-> all_functions[k].name],
     ids |-> SCOPE_CTXID, order |-> hist.order, envs |-> hist.envs,
     text |-> [k \in DOMAIN all_functions |-> all_functions[k].code],
     at |-> spc.at]

\* the program is run once more, in a new process, on the same input
Rerun ==
    /\ Over /\ spc.n = 1
    /\ all_functions' = corpus
    /\ SCOPEINFO_PARENT' = <<>> /\ SCOPE_CTXID' = <<>> /\ SCOPEINFO_INIT' = FALSE
    /\ SCOPE_SLOT_ENV' = <<>>
    /\ function_context_stack' = [function_name_context |-> <<>>, function_declarer |-> <<>>]
    /\ spc' = Where("decompile", 1, 2, <<>>)
    /\ simpl' = <<>>
    /\ hist' = [NoHistory EXCEPT !.first = <<Outcome>>]
    /\ UNCHANGED idle

\* ---- the corpora ----
ScopeAddrs == {"0x1a", "0x1A", "0x2b"}
FuncNames == <<"f1", "f2", "f3", "f4">>

\* the lines of the functions whose text varies
Vocabulary ==
    {<<Reg("r0"), Assign, Lit("5")>>,                                \* r0 = 5
     <<Reg("ACCU"), Assign, Word("foo"), LParen, Lit("5"), RParen>>, \* ACCU = foo(5)
     <<Reg("r0"), Assign, Reg("ACCU")>>,                             \* r0 = ACCU
     <<ScopeCurrent(0, 2), Assign, Reg("r0")>>,                      \* Scope[CURRENT][2] = r0
     <<ScopeCurrent(0, 2), Assign, Reg("ACCU")>>,                    \* Scope[CURRENT][2] = ACCU
     <<Word("return"), Sp, ScopeCurrent(0, 2)>>,                     \* return Scope[CURRENT][2]
     <<Reg("r0"), Assign, ScopeCurrent(0, 2)>>,                      \* r0 = Scope[CURRENT][2]
     <<Word("return"), Sp, Reg("r0")>>,                              \* return r0
     <<Word("while (true)")>>,
     BraceOpen,
     BraceClose}

Texts(n) == UNION {[1..m -> Vocabulary] : m \in 0..n}
Code(texts) == Wrapped([i \in DOMAIN texts |-> Translated(texts[i])])

\* one function, or an outer function and a function of its scope, with at
\* most MaxText lines between the braces in all; the translation of the first
\* function may have raised
TextCorpora ==
    {<<Sfi("f1", NoAddr, "0x1a", NoAddr, Code(t))>> : t \in Texts(MaxText)}
    \cup UNION {{<<Sfi("f1", NoAddr, "0x1a", NoAddr, Code(t1)),
                   Sfi("f2", NoAddr, "0x2b", "0x1a", Code(t2))>> :
                    t2 \in Texts(MaxText - Len(t1))} : t1 \in Texts(MaxText)}
    \cup {<<Sfi("f1", NoAddr, "0x1a", NoAddr, <<>>),
            Sfi("f2", NoAddr, "0x2b", "0x1a", Code(t2))>> : t2 \in Texts(1)}

\* the functions of the corpora whose scope addresses vary
ScopeCode ==
    {Code(<<<<ScopeCurrent(0, 2), Assign, Lit("5")>>>>),
     Code(<<BraceOpen, <<Word("return"), Sp, ScopeCurrent(0, 2)>>, BraceClose>>),
     Code(<<BraceOpen>>)}

ScopeSfis(name, codes) ==
    {Sfi(name, NoAddr, si, oi, code) :
        si \in ScopeAddrs \cup {NoAddr}, oi \in ScopeAddrs \cup {NoAddr}, code \in codes}

\* the code of the n-th function of a corpus of several: a write to the slot,
\* or a read of it
ScopeCodeOf(n) ==
    IF n % 2 = 1 THEN {Code(<<<<ScopeCurrent(0, 2), Assign, Lit("5")>>>>)}
    ELSE {Code(<<<<Word("return"), Sp, ScopeCurrent(0, 2)>>>>)}

RECURSIVE ScopeCorporaOf(_)
\* the registries of n functions
ScopeCorporaOf(n) ==
    IF n = 0 THEN {<<>>}
    ELSE UNION {{Append(c, f) : f \in ScopeSfis(FuncNames[n], ScopeCodeOf(n))} :
                c \in ScopeCorporaOf(n - 1)}

ScopeCorpora ==
    {<<f1>> : f1 \in ScopeSfis("f1", ScopeCode)}
    \cup UNION {ScopeCorporaOf(n) : n \in 2..MaxFuncs}

InitSimplify == \E corp \in TextCorpora : Parsed(corp)
InitScope == \E corp \in ScopeCorpora : Parsed(corp)

NextSimplify ==
    \/ decompile
    \/ simplify_all_in_scope_order
    \/ simplify_translated_bytecode
    \/ simplify_block
    \/ SimplifyLine
    \/ EndBlock
    \/ NoMoreLines

NextScope == NextSimplify \/ Rerun

SpecSimplify == InitSimplify /\ [][NextSimplify]_vars
SpecScope == InitScope /\ [][NextScope]_vars

----------------------------------------------------------------------------
(* Claims about the run (SpecScope: two runs on corpora that vary in their *)
(* scope addresses)                                                        *)

\* the scope addresses of the corpus
CorpusAddrs == CollectAddrs(corpus)
\* the pass has its order: line 509 returned
Ordered == spc.at \in {"function", "block", "raised"}
\* the place of the function f of the registry in the order of the pass
Place(f) == CHOOSE i \in DOMAIN spc.funcs : spc.funcs[i] = f

\* C11: when the second run on an input is over, the keys of the registry
\* and their order, the scope-id table, the order in which the functions
\* were simplified, the slot environment after each function and the text of
\* every line are those the first run left.
C11_RunsAgree ==
    (spc.n = 2 /\ Over) => Outcome = hist.first[1]

\* the same, for the corpora no two addresses of which have the same value
C11_RunsAgreeOnDistinctValues ==
    (\A a, b \in CorpusAddrs : a # b => hex_to_int(a) # hex_to_int(b)) => C11_RunsAgree

\* C12: once the scope graph is initialised the ids of the addresses of the
\* corpus are exactly 1..N, two addresses never have the same id, an address
\* of smaller value has the smaller id whatever the order of the registry,
\* and no step of the run changes the id of an address that has one.
C12_IdsAscending ==
    /\ [](SCOPEINFO_INIT =>
            /\ DOMAIN SCOPE_CTXID = CorpusAddrs
            /\ {SCOPE_CTXID[a] : a \in CorpusAddrs} = 1..Cardinality(CorpusAddrs)
            /\ \A a, b \in CorpusAddrs : a # b => SCOPE_CTXID[a] # SCOPE_CTXID[b]
            /\ \A a, b \in CorpusAddrs :
                  hex_to_int(a) < hex_to_int(b) => SCOPE_CTXID[a] < SCOPE_CTXID[b])
    /\ [][SCOPEINFO_INIT /\ SCOPEINFO_INIT' =>
            \A a \in DOMAIN SCOPE_CTXID :
                a \in DOMAIN SCOPE_CTXID' /\ SCOPE_CTXID'[a] = SCOPE_CTXID[a]]_vars

\* a run that numbered three addresses, met in the registry in descending
\* order of value, and then resolved the scope accesses of a line
C12_Witness ==
    /\ SCOPEINFO_INIT /\ hist.last.kind = "line"
    /\ Cardinality(CorpusAddrs) = 3
    /\ Len(corpus) >= 2
    /\ corpus[1].scope_info_addr = "0x2b" /\ corpus[2].scope_info_addr = "0x1a"

\* C14: in the order of the pass a function comes before every function
\* whose outer-scope address is its scope address, and the functions without
\* an outer scope come before those that have one.
C14_OuterBeforeInner ==
    Ordered =>
        /\ \A f, g \in DOMAIN all_functions :
              (/\ f # g
               /\ all_functions[f].scope_info_addr # NoAddr
               /\ all_functions[g].outer_scope_info_addr = all_functions[f].scope_info_addr)
              => Place(f) < Place(g)
        /\ \A f, g \in DOMAIN all_functions :
              (/\ all_functions[f].outer_scope_info_addr = NoAddr
               /\ all_functions[g].outer_scope_info_addr # NoAddr)
              => Place(f) < Place(g)

\* the same, for the corpora no two functions of which have the same scope address
C14_OuterBeforeInnerUnshared ==
    (\A f, g \in DOMAIN corpus :
        f # g /\ corpus[f].scope_info_addr # NoAddr
            => corpus[f].scope_info_addr # corpus[g].scope_info_addr)
    => C14_OuterBeforeInner

----------------------------------------------------------------------------
(* Claims about the simplifier (SpecSimplify: corpora that vary in text)   *)

\* the names of the functions the pass went into
Simplified_ == Range(hist.order)

\* C13: the decompile loop goes through every function of the registry
\* whether or not the call raises; no exception leaves the simplification
\* pass, which goes into every function of the registry and returns.
C13_FailureIsolated ==
    /\ spc.at # "decompile" => Len(hist.decompiled) = Len(all_functions)
    /\ spc.at # "raised"
    /\ Returned => \A f \in DOMAIN all_functions : all_functions[f].name \in Simplified_

\* the same for the decompile loop alone
C13_DecompileLoopGoesOn ==
    /\ Len(hist.decompiled) = IF spc.at = "decompile" THEN spc.k - 1 ELSE Len(all_functions)
    /\ \A i \in DOMAIN hist.decompiled : hist.decompiled[i].name = all_functions[i].name

\* the line simplify_line was last given is a write to a slot; its right-hand
\* side as it was written out
SlotWrite ==
    /\ hist.last.kind = "line"
    /\ MAssign(hist.last.resolved) /\ hist.last.resolved[1].k = "Scope"
WrittenSlot == <<hist.last.resolved[1].n, hist.last.resolved[1].slot>>
WrittenRhs == SubSeq(hist.last.out, 3, Len(hist.last.out))
HasParen(text) == \E i \in DOMAIN text : text[i].k \in {"(", ")"}

\* C15: no text of the slot environment has a parenthesis, and right after a
\* write to Scope[id][slot] whose right-hand side, registers replaced, is
\* call-shaped the environment has no entry for (id, slot).
C15_SlotValuesSimple ==
    /\ \A key \in DOMAIN SCOPE_SLOT_ENV : ~HasParen(SCOPE_SLOT_ENV[key])
    /\ (SlotWrite /\ CallShaped(WrittenRhs)) => WrittenSlot \notin DOMAIN SCOPE_SLOT_ENV

\* a call-shaped write to a slot the environment had a text for
C15_Witness ==
    /\ SlotWrite /\ CallShaped(WrittenRhs)
    /\ WrittenSlot \in DOMAIN hist.last.env

\* the text a read token of a line is to become: the text recorded for the
\* slot, the text recorded for the register, or the token
ReadAs(tok) ==
    IF /\ tok.k = "Scope" /\ tok.s = "num" /\ tok.slot # -1
       /\ <<tok.n, tok.slot>> \in DOMAIN hist.last.env
    THEN hist.last.env[<<tok.n, tok.slot>>]
    ELSE IF tok.k = "reg" /\ tok \in DOMAIN hist.last.known THEN hist.last.known[tok]
    ELSE <<tok>>
RECURSIVE ReadsAs(_)
ReadsAs(text) == IF text = <<>> THEN <<>> ELSE ReadAs(Head(text)) \o ReadsAs(Tail(text))

\* C16: in the line simplify_line returns, every read of a slot the
\* environment has a text T for stands as T, and the left-hand side of an
\* assignment stands as it was.
C16_ReadsReplaced ==
    hist.last.kind = "line" =>
        hist.last.out =
            IF MAssign(hist.last.resolved)
            THEN <<hist.last.resolved[1], Assign>>
                 \o ReadsAs(Strip(SubSeq(hist.last.resolved, 3, Len(hist.last.resolved))))
            ELSE ReadsAs(hist.last.resolved)

\* the same, as long as no text of the environment names a register
C16_ReadsReplacedByRegisterFreeText ==
    (hist.last.kind = "line" => \A key \in DOMAIN hist.last.env :
        \A i \in DOMAIN hist.last.env[key] : hist.last.env[key][i].k # "reg")
    => C16_ReadsReplaced

\* the Register objects of the registers regs in the dicts of the open blocks
Recorded(regs) ==
    UNION {{simpl.heap[simpl.blocks[i].reg_scope[r]] :
                r \in {x \in DOMAIN simpl.blocks[i].reg_scope : x.k = "reg" /\ x.s \in regs}} :
           i \in DOMAIN simpl.blocks}
\* the registers of regs the last line reads
ReadRegs(regs) ==
    {hist.last.resolved[i] : i \in {j \in DOMAIN hist.last.resolved :
        /\ hist.last.resolved[j].k = "reg" /\ hist.last.resolved[j].s \in regs
        /\ ~(MAssign(hist.last.resolved) /\ j = 1)}}
\* the hidden lines that assign to a register of regs
HiddenLines(regs) ==
    UNION {{all_functions[f].code[i].decompiled :
                i \in {j \in DOMAIN all_functions[f].code :
                          /\ ~all_functions[f].code[j].visible
                          /\ MAssign(all_functions[f].code[j].decompiled)
                          /\ all_functions[f].code[j].decompiled[1].k = "reg"
                          /\ all_functions[f].code[j].decompiled[1].s \in regs}} :
           f \in DOMAIN all_functions}
\* reg_is_constant's pattern of line 135
PatternShaped(value) ==
    SkipParens(value) # <<>> /\ Head(SkipParens(value)).k \in {"Scope", "lit"}

OnlyConstants(regs) ==
    /\ spc.at = "block" =>
          \A obj \in Recorded(regs) :
              ~obj.was_overwritten => ~CallShaped(obj.value) /\ PatternShaped(obj.value)
    /\ hist.last.kind = "line" =>
          \A reg \in ReadRegs(regs) \cap DOMAIN hist.last.known :
              ~CallShaped(hist.last.known[reg])
    /\ \A line \in HiddenLines(regs) : ~CallShaped(SubSeq(line, 3, Len(line)))

----------------------------------------------------------------------------
(* Reconstruction on the code the parser hands over (SpecRegion): the      *)
(* offsets of a function are contiguous, the ones no instruction sits at   *)
(* hold placeholder lines, and a try region comes with the jump that ends  *)
(* it                                                                      *)

MaxRegionOffset == 4     \* the lines sit at offsets 0..MaxRegionOffset

\* sfi_file_parser.py lines 557-565 and translate.py lines 47-49: the lines
\* at the offsets of holes are placeholders, which the translator skips, so
\* their text is empty; the set is kept as history
WithPlaceholders(jb, holes) ==
    [jb EXCEPT !.translated = [o \in DOMAIN @ |-> IF o \in holes THEN <<>> ELSE @[o]],
               !.g = [loops |-> {}, dispatched |-> {}, placeholders |-> holes]]

RegionOffsets == 0..MaxRegionOffset
\* the edges an instruction registers
RegionEdges ==
    {Jump(t, s, e) : t \in {"Loop", "If", "Jump", "IfJSReceiver"},
                     s \in RegionOffsets, e \in RegionOffsets}
    \cup {SwitchJump("IntSwitch", s, e, <<"switch ", "(", "ACCU", ")">>, e) :
             s \in RegionOffsets, e \in RegionOffsets}
\* a handler table entry, the jump at the end of the try region and one more edge
RegionEdgeSets ==
    UNION {{ {Jump("Exception", s, c), Jump("Jump", j, MaxRegionOffset), x} :
                x \in {y \in RegionEdges : ~(y.type = "Jump" /\ y.start = j)} } :
           s \in {0, 1}, c \in {3, 4}, j \in {2, 3}}
\* the offsets without an instruction
RegionHoles == {{}, {1}, {1, 3}}

InitRegion ==
    /\ \E holes \in RegionHoles :
          /\ registered \in {E \in RegionEdgeSets :
                                \A e \in E : e.type # "Exception" => e.start \notin holes}
          /\ jump_blocks = WithPlaceholders(JumpBlocks(UpTo(MaxRegionOffset), registered), holes)
    /\ jump_list = <<>>
    /\ pc = At_("get_all_jump_list", 0)
    /\ code_list = <<>>
    /\ NoPrescan
    /\ gen = "start" /\ cur = NoneLine /\ nread = 0 /\ dialect = "pool"
    /\ repeat_last_line = FALSE /\ stack = <<>> /\ all_functions = <<>>
    /\ obs = [pending |-> FALSE, redelivered |-> FALSE, requested |-> FALSE,
              lastStored |-> 0, nframes |-> 0, topStarts |-> 0, topStored |-> 0, aborted |-> FALSE,
              blocks |-> <<>>, nblocks |-> 0, owner |-> <<>>, lineBlock |-> 0,
              foreign |-> FALSE, early |-> FALSE]
    /\ NoSimplification

SpecRegion == InitRegion /\ [][NextJump]_vars

----------------------------------------------------------------------------
(* Claims about the regions of the reconstructor (SpecRegion, SpecJump)    *)

\* preprocessing has returned and nothing else has run
JustPreprocessed == pc.at = "remove_if_js_receiver"
\* the offsets an instruction sits at, below a branch target
RealBefore(jb, target) ==
    {o \in Range(jb.code_offset) \ jb.g.placeholders : o < target}
\* the jump object of a registered edge
Now(e) == jump_blocks.jumps[Id(e.type, e.start)]

\* C18: after preprocessing every edge has the start it was registered with,
\* a Loop or IntSwitch edge has the end it was registered with, and the end
\* of an edge of another type with start # end is an offset of the code: the
\* offset of the last instruction (placeholders aside) below the target it
\* was registered with, when there is one.
C18_EndIsLastGuarded ==
    JustPreprocessed =>
        \A e \in registered :
            /\ Now(e).start = e.start
            /\ e.type \in {"Loop", "IntSwitch"} => Now(e).end = e.end
            /\ (e.type \notin {"Loop", "IntSwitch"} /\ e.start # e.end) =>
                  /\ Now(e).end \in Range(jump_blocks.code_offset)
                  /\ RealBefore(jump_blocks, e.end) # {} =>
                        Now(e).end = SetMax(RealBefore(jump_blocks, e.end))

\* the same, for the functions every offset of which holds an instruction
C18_EndIsLastGuardedWithoutPlaceholders ==
    jump_blocks.g.placeholders = {} => C18_EndIsLastGuarded

\* the catch handlers a region encloses
Enclosed(jb, start, end) ==
    {c \in Range(Values(jb, "Catch")) : start < c.start /\ c.start <= end}
\* where the closing brace of the region is to go
RegionEnd(jb, start, end) ==
    IF Enclosed(jb, start, end) = {} THEN end
    ELSE (CHOOSE c \in Enclosed(jb, start, end) : TRUE).start
Braces(jb, offset) == Count(jb.translated[offset], "}")
\* the handler of a loop whose first line exists is about to run
ClosingLoop == Dispatching("Loop") /\ get_line(jump_blocks, Current.start) # -1

\* C20: the handler of a loop (start, end) puts one closing brace on the line
\* at end, or on the line at the start of the catch handler the region
\* encloses (start < catch.start <= end) when there is one, whatever other
\* catch handlers are registered.
C20_BraceAtEnd ==
    [][ClosingLoop =>
          Braces(jump_blocks', RegionEnd(jump_blocks, Current.start, Current.end))
              = Braces(jump_blocks, RegionEnd(jump_blocks, Current.start, Current.end)) + 1]_vars

\* the same, as long as no catch handler starts behind the region
C20_BraceAtEndWithoutLaterCatch ==
    [][(ClosingLoop /\ \A c \in Range(Values(jump_blocks, "Catch")) : c.start <= Current.end) =>
          Braces(jump_blocks', RegionEnd(jump_blocks, Current.start, Current.end))
              = Braces(jump_blocks, RegionEnd(jump_blocks, Current.start, Current.end)) + 1]_vars

\* the IfJSReceiver guards of the table, and the offsets of their spans
Guards(jb) ==
    {jb.jumps[Id("IfJSReceiver", s)] : s \in Range(jb.jump_table["IfJSReceiver"])}
Span(jb, g) ==
    {o \in Range(jb.code_offset) : g.start <= o /\ o <= snap_to_existing_offset(jb, g.end)}
Inner(jb, g) ==
    {o \in Range(jb.code_offset) : g.start < o /\ o < snap_to_existing_offset(jb, g.end)}
Spans(jb) == UNION {Span(jb, g) : g \in Guards(jb)}
\* the removal pass is about to run on guards that start at lines of the code
Removing ==
    /\ pc.at = "remove_if_js_receiver"
    /\ \A g \in Guards(jump_blocks) : g.start \in Range(jump_blocks.code_offset)

Removed(jb, after) ==
    /\ \A g \in Guards(jb) :
          /\ after.jumps[Id("IfJSReceiver", g.start)].done
          /\ ~InTable(after, "IfJSReceiver", g.start)
          /\ \A o \in Inner(jb, g) : after.translated[o] = <<>>
          /\ \A id \in DOMAIN jb.jumps : jb.jumps[id].start \in Inner(jb, g) => after.jumps[id].done
    /\ \A o \in Range(jb.code_offset) \ Spans(jb) : after.translated[o] = jb.translated[o]
    /\ \A id \in DOMAIN jb.jumps : jb.jumps[id].start \notin Spans(jb) => after.jumps[id] = jb.jumps[id]
    /\ \A t \in Range(JumpTypes) : \A k \in Range(jb.jump_table[t]) :
          k \notin Spans(jb) => InTable(after, t, k)

\* C19: the removal pass marks every guard done and takes it from its table,
\* empties every line strictly between a guard's start and its snapped end,
\* marks done every edge that starts at such a line, and leaves as they were
\* the lines outside the closed spans of the guards and the edges that start
\* outside them.
C19_OnlyTheSpan ==
    [][Removing => Removed(jump_blocks, jump_blocks')]_vars

\* the same, for guards that jump forward
C19_OnlyTheSpanOfForwardGuards ==
    [][(Removing /\ \A g \in Guards(jump_blocks) :
            g.start <= snap_to_existing_offset(jump_blocks, g.end))
       => Removed(jump_blocks, jump_blocks')]_vars
----------------------------------------------------------------------------
(* Loops with their breaks and continues (SpecLoop)                        *)

MaxLoopOffset == 6     \* the lines sit at offsets 0..MaxLoopOffset

\* the edges the jump instructions of a loop body register, a handler table
\* entry and a switch
LoopEdges(last) ==
    {Jump(t, s, e) : t \in {"If", "Jump"}, s \in 0..last, e \in 0..last}
    \cup {Jump("Exception", 0, 3), Jump("IfJSReceiver", 2, 3),
          SwitchJump("IntSwitch", 1, 2, <<"switch ", "(", "ACCU", ")">>, 2)}
\* a JumpLoop instruction near the end of the code and one or two more edges
LoopEdgeSets(last) ==
    UNION {{ {l, x, y} : l \in {Jump("Loop", s, e) : s \in {0, 1}, e \in {last - 1, last}},
                         y \in {z \in LoopEdges(last) :
                                   (z.type = x.type /\ z.start = x.start) => z = x} } :
           x \in LoopEdges(last)}

InitLoop ==
    /\ registered \in LoopEdgeSets(MaxLoopOffset)
    /\ jump_blocks = JumpBlocks(UpTo(MaxLoopOffset), registered)
    /\ jump_list = <<>>
    /\ pc = At_("get_all_jump_list", 0)
    /\ code_list = <<>>
    /\ NoPrescan
    /\ gen = "start" /\ cur = NoneLine /\ nread = 0 /\ dialect = "pool"
    /\ repeat_last_line = FALSE /\ stack = <<>> /\ all_functions = <<>>
    /\ obs = [pending |-> FALSE, redelivered |-> FALSE, requested |-> FALSE,
              lastStored |-> 0, nframes |-> 0, topStarts |-> 0, topStored |-> 0, aborted |-> FALSE,
              blocks |-> <<>>, nblocks |-> 0, owner |-> <<>>, lineBlock |-> 0,
              foreign |-> FALSE, early |-> FALSE]
    /\ NoSimplification

SpecLoop == InitLoop /\ [][NextJump]_vars

\* the If and Jump edges of the tables
Pending(jb) == {jb.jumps[id] : id \in Range(IfsAndJumps(jb))}
\* the range handle_loop hands to handle_break and handle_continue ends here
BodyEnd(jb, loop) == get_relative_offset(jb, loop.end, -1)
\* the edge leaves the loop
LeavesLoop(jb, loop, x) ==
    /\ loop.start <= x.start /\ x.start <= BodyEnd(jb, loop)
    /\ BodyEnd(jb, loop) < x.end
\* the edge starts in the loop and ends at one of its last instructions
EndsNearEnd(jb, loop, x) ==
    /\ loop.start <= x.start /\ x.start <= loop.end
    /\ get_relative_offset(jb, BodyEnd(jb, loop), -4) <= x.end
    /\ x.end <= BodyEnd(jb, loop)
\* a conditional edge that ends where a break of the loop starts
EndsAtBreak(jb, loop, x) ==
    /\ x.type = "If"
    /\ \E j \in Pending(jb) : j.type = "Jump" /\ j.start = x.end /\ LeavesLoop(jb, loop, j)
\* the handler consumed the edge and wrote the word on its line
Marked(jb, after, x, word) ==
    /\ after.jumps[Id(x.type, x.start)].done
    /\ Count(after.translated[x.start], word) > Count(jb.translated[x.start], word)
\* the only edge of the tables at its line
Alone(jb, x) == \A y \in Pending(jb) : y.start = x.start => y = x

LoopHandled(jb, after, loop) ==
    \A x \in Pending(jb) :
       /\ LeavesLoop(jb, loop, x) => Marked(jb, after, x, "break")
       /\ (EndsNearEnd(jb, loop, x) /\ ~EndsAtBreak(jb, loop, x)) =>
             Marked(jb, after, x, "continue")
       /\ (EndsNearEnd(jb, loop, x) /\ EndsAtBreak(jb, loop, x)) =>
             /\ ~after.jumps[Id(x.type, x.start)].done
             /\ Alone(jb, x) => after.translated[x.start] = jb.translated[x.start]
       /\ Alone(jb, x) => ~(Marked(jb, after, x, "break") /\ Marked(jb, after, x, "continue"))

\* C21: the handler of a loop marks the edges that leave the loop "break"
\* first, then marks "continue" and consumes every If or Jump edge of the
\* tables that starts in the loop and ends within four instructions before
\* its end, except a conditional edge that ends at the start of a Jump edge
\* marked as a break of this loop, which is neither marked nor consumed; no
\* edge gets both words.
C21_BreakThenContinue ==
    [][ClosingLoop => LoopHandled(jump_blocks, jump_blocks', Current)]_vars
----------------------------------------------------------------------------
(* Chains of conditional edges (SpecIf)                                    *)

MaxIfOffset == 4     \* the lines sit at offsets 0..MaxIfOffset

\* conditional jumps, forward jumps, a loop, a handler table entry, a switch
IfEdges(last) ==
    {Jump("If", s, e) : s \in 0..last, e \in 0..last}
    \cup {Jump("Jump", s, e) : s \in 0..last, e \in 1..last}
    \cup {Jump("Loop", 3, 4), Jump("Exception", 0, 3),
          SwitchJump("IntSwitch", 1, 2, <<"switch ", "(", "ACCU", ")">>, 2)}
\* one to three edges, no two of a type at one start
IfEdgeSets(last) ==
    {E \in UNION {{ {x, y, z} : y \in IfEdges(last), z \in IfEdges(last) } :
                  x \in IfEdges(last)} :
        \A a, b \in E : (a.type = b.type /\ a.start = b.start) => a = b}

InitIf ==
    /\ registered \in IfEdgeSets(MaxIfOffset)
    /\ jump_blocks = JumpBlocks(UpTo(MaxIfOffset), registered)
    /\ jump_list = <<>>
    /\ pc = At_("get_all_jump_list", 0)
    /\ code_list = <<>>
    /\ NoPrescan
    /\ gen = "start" /\ cur = NoneLine /\ nread = 0 /\ dialect = "pool"
    /\ repeat_last_line = FALSE /\ stack = <<>> /\ all_functions = <<>>
    /\ obs = [pending |-> FALSE, redelivered |-> FALSE, requested |-> FALSE,
              lastStored |-> 0, nframes |-> 0, topStarts |-> 0, topStored |-> 0, aborted |-> FALSE,
              blocks |-> <<>>, nblocks |-> 0, owner |-> <<>>, lineBlock |-> 0,
              foreign |-> FALSE, early |-> FALSE]
    /\ NoSimplification

SpecIf == InitIf /\ [][NextJump]_vars

\* handle_if_statement is about to colour a chain: the edge is no switch
\* case, it does not end where it starts and the chain has a last link
Colouring ==
    /\ Dispatching("If")
    /\ ~handle_switch(jump_blocks, Current).handled
    /\ Current.start # Current.end
    /\ LastIf(jump_blocks, Id("If", Current.start), {}) # Id("hang", 0)
\* what get_last_if_in_statement leaves: [jb, last_if]
ChainOf(jb, first_if) ==
    get_last_if_in_statement(jb, LastIf(jb, Id("If", first_if.start), {}))
\* line 425: the links of the chain
AllIf(r, first_if) ==
    LET Chained(i) == /\ first_if.start <= i.start
                      /\ i.start <= r.jb.jumps[r.last_if].start
                      /\ i.start # i.end
    IN SelectIds(r.jb, Ifs(r.jb), Chained)
\* line 426: the colour of each target offset
Colours(r, all_if) ==
    get_or_and_table(r.jb, [i \in DOMAIN all_if |-> r.jb.jumps[all_if[i]]], r.jb.jumps[r.last_if])

\* the condition of the second text is the negation of that of the first
Negated(text, inverted) ==
    IF Has(text, " != ") THEN Has(inverted, " == ") /\ ~Has(inverted, " != ")
    ELSE Has(text, "!") # Has(inverted, "!")

Coloured(r, links, T, after) ==
    LET last_if == r.jb.jumps[r.last_if]
        next == get_relative_offset(r.jb, last_if.start, 1)
    IN /\ T[last_if.end] = "&&"
       /\ Negated(r.jb.translated[last_if.start], after.translated[last_if.start])
       /\ \A l \in links : (l.end = next /\ next # last_if.end) => T[l.end] = "||"
       /\ \A l \in links : \A j \in links :
             (l.end = j.start /\ j.end \in DOMAIN T /\ l.end \notin {next, last_if.end}) =>
                 l.end \in DOMAIN T /\ T[l.end] # T[j.end]
       /\ \A l \in links :
             IF l.end \in DOMAIN T THEN after.jumps[Id("If", l.start)].done
             ELSE /\ ~after.jumps[Id("If", l.start)].done
                  /\ after.translated[l.start] = r.jb.translated[l.start]

\* C22: when a chain of conditional edges is coloured, the target of the
\* last link is "&&" and the last link's condition is negated, a link that
\* targets the instruction after the last link's start is "||", any other
\* link that ends at the start of a coloured link has the opposite of that
\* link's colour, the coloured links are consumed, and a link whose end got
\* no colour stays unconsumed with its text.
C22_ChainColoured ==
    [][Colouring =>
          Coloured(ChainOf(jump_blocks, Current),
                   {ChainOf(jump_blocks, Current).jb.jumps[id] :
                       id \in Range(AllIf(ChainOf(jump_blocks, Current), Current))},
                   Colours(ChainOf(jump_blocks, Current),
                           AllIf(ChainOf(jump_blocks, Current), Current)),
                   jump_blocks')]_vars
----------------------------------------------------------------------------
(* Edges that no instruction resolves (SpecJump)                           *)

\* C23: reconstruction never raises, whatever the instruction list (an
\* empty one included) and the edges; on an empty list, where no offset of
\* an edge resolves to an instruction, it finishes with no line of text.
C23_CompletesWithoutRaising ==
    /\ pc.at # "raised"
    /\ ~jump_blocks.raised
    /\ (pc.at = "done" /\ jump_blocks.code_offset = <<>>) =>
          \A i \in DOMAIN code_list : code_list[i] \in {<<"{">>, <<"}">>}
----------------------------------------------------------------------------
(* Registers across nested blocks and loops (SpecBlocks)                   *)

MaxBody == 2     \* a block has at most MaxBody statements of its own

\* the statements of the blocks: r0 = 5, r0 = 6, return r0
Statements ==
    {<<Reg("r0"), Assign, Lit("5")>>,
     <<Reg("r0"), Assign, Lit("6")>>,
     <<Word("return"), Sp, Reg("r0")>>}
Bodies(n) == UNION {[1..m -> Statements] : m \in 0..n}
\* the lines an if, a catch or a loop leaves: a header or none, and the
\* braces around the body
Headers == {<<>>, <<<<Word("while (true)")>>>>}
Braced(header, body) == header \o <<BraceOpen>> \o body \o <<BraceClose>>
\* a block of fewer than n statements and maybe a block without header inside
SecondBlocks(n) ==
    {<<>>}
    \cup UNION {{Braced(h, b) : b \in Bodies(n - 1)} : h \in Headers}
    \cup UNION {{Braced(h, b \o Braced(<<>>, c)) : b \in Bodies(n - 1), c \in Bodies(n - 1)} :
                h \in Headers}
\* a statement or none, a block, maybe a second block, a statement or none
NestedTexts(n) ==
    UNION {{pre \o Braced(h, b) \o second \o post :
               h \in Headers, b \in Bodies(n), second \in SecondBlocks(n),
               post \in {<<>>, <<<<Word("return"), Sp, Reg("r0")>>>>}} :
           pre \in {<<>>, <<<<Reg("r0"), Assign, Lit("5")>>>>}}

\* one function; the translation of one function leaves its block open
BlockCorpora(n) ==
    {<<Sfi("f1", NoAddr, "0x1a", NoAddr, Code(t))>> : t \in NestedTexts(n)}
    \cup {<<Sfi("f1", NoAddr, "0x1a", NoAddr, Code(<<BraceOpen>>))>>}

InitBlocks == \E corp \in BlockCorpora(MaxBody) : Parsed(corp)
SpecBlocks == InitBlocks /\ [][NextSimplify]_vars

\* ---- the text of a function, line by line (places 1..Len(code)) ----
AssignsTo(code, i, reg) ==
    MAssign(code[i].translated) /\ code[i].translated[1] = Reg(reg)
\* the line reads the register
Reads(line, reg) ==
    \E k \in (IF MAssign(line) THEN 3..Len(line) ELSE 1..Len(line)) : line[k] = Reg(reg)
RECURSIVE OpenBraces(_, _)
\* the places of the braces that are open behind line i, the innermost last
OpenBraces(code, i) ==
    IF i = 0 THEN <<>>
    ELSE IF code[i].translated = BraceOpen THEN Append(OpenBraces(code, i - 1), i)
    ELSE IF code[i].translated = BraceClose /\ OpenBraces(code, i - 1) # <<>>
    THEN Front(OpenBraces(code, i - 1))
    ELSE OpenBraces(code, i - 1)
\* the places of the opening braces of the loops of a function
LoopsOf(code) ==
    {j \in 2..Len(code) : /\ code[j].translated = BraceOpen
                          /\ code[j - 1].translated = <<Word("while (true)")>>}
\* the place of the brace that closes the block opened at j (0: none does)
ClosedAt(code, j) ==
    IF \E k \in j..Len(code) : j \notin Range(OpenBraces(code, k))
    THEN SetMin({k \in j..Len(code) : j \notin Range(OpenBraces(code, k))})
    ELSE 0
\* the places of the assignments to the register in lines from..to
Assignments(code, reg, from, to) == {a \in from..to : AssignsTo(code, a, reg)}

RegisterNames == {"r0"}
\* the place of the line simplify_line has just returned from
Here == hist.last.line_index + 1

\* a read, inside a loop, of a register last assigned before the loop
ReadInLoop(code, i, reg, loop) ==
    /\ Reads(code[i].translated, reg)
    /\ loop \in Range(OpenBraces(code, i))
    /\ Assignments(code, reg, 1, loop) # {}
    /\ Assignments(code, reg, loop, i) = {}
\* a read, behind a loop, of a register assigned in the loop and not since
ReadBehindLoop(code, i, reg, loop) ==
    /\ Reads(code[i].translated, reg)
    /\ ClosedAt(code, loop) # 0 /\ ClosedAt(code, loop) < i
    /\ Assignments(code, reg, loop, ClosedAt(code, loop)) # {}
    /\ Assignments(code, reg, ClosedAt(code, loop), i) = {}

\* C24: a read inside a loop of a register whose last assignment precedes
\* the loop keeps the bare name, and the line of that assignment is visible;
\* a read behind a loop of a register that was assigned in the loop body,
\* directly or in a nested block, keeps the bare name and hides no
\* assignment to the register.
C24_LoopScope ==
    hist.last.kind = "line" =>
        \A reg \in RegisterNames : \A loop \in LoopsOf(TheCode) :
            /\ ReadInLoop(TheCode, Here, reg, loop) =>
                  /\ Reads(hist.last.out, reg)
                  /\ TheCode[SetMax(Assignments(TheCode, reg, 1, loop))].visible
            /\ ReadBehindLoop(TheCode, Here, reg, loop) =>
                  /\ Reads(hist.last.out, reg)
                  /\ hist.last.hidden \cap Assignments(TheCode, reg, 1, Len(TheCode)) = {}
----------------------------------------------------------------------------
(* Scope expressions that do not resolve (SpecResolve)                     *)

MaxScopeText == 2     \* lines of the inner function, braces aside

\* writes and reads of slot 2 through Scope[CURRENT], Scope[CURRENT-1],
\* Scope[CURRENT-2], Scope[r1] and Scope[r1-1]; no line assigns r1
ScopeExprs ==
    {ScopeCurrent(0, 2), ScopeCurrent(1, 2), ScopeCurrent(2, 2),
     ScopeOther("r1", 0, 2), ScopeOther("r1", 1, 2)}
ScopeLines ==
    {<<e, Assign, Lit("5")>> : e \in ScopeExprs}
    \cup {<<Word("return"), Sp, e>> : e \in ScopeExprs}
ScopeTexts(n) == UNION {[1..m -> ScopeLines] : m \in 0..n}
\* an outer function with or without a scope address, and maybe a function
\* of its scope, with or without addresses; one code has its block left open
ResolveCorpora(n) ==
    UNION {{<<Sfi("f1", NoAddr, si, NoAddr, Code(t))>> : t \in ScopeTexts(1)} :
           si \in {NoAddr, "0x1a"}}
    \cup UNION {{<<Sfi("f1", NoAddr, "0x1a", NoAddr, Code(<<>>)),
                   Sfi("f2", NoAddr, si, oi, Code(t))>> : t \in ScopeTexts(n)} :
                si \in {NoAddr, "0x2b"}, oi \in {NoAddr, "0x1a"}}
    \cup {<<Sfi("f1", NoAddr, "0x1a", NoAddr, Code(<<BraceOpen>>))>>}

InitResolve == \E corp \in ResolveCorpora(MaxScopeText) : Parsed(corp)
SpecResolve == InitResolve /\ [][NextSimplify]_vars

\* the i-th token of the line is a read of a slot
SlotRead(line, i) == line[i].slot # -1 /\ ~(LhsMatch(line) /\ i = 1)
\* the expression does not resolve: CURRENT-k with fewer than k ancestors,
\* CURRENT in a function without an id (unless it is a slot read that the
\* outer scope answers), or a base that is neither a number nor CURRENT
Unresolved(o, tok, slot_read) ==
    \/ /\ tok.s = "CURRENT" /\ tok.n > 0
       /\ ascend_scopeinfo(SCOPEINFO_PARENT, o.cur_scope_info, tok.n) = NoAddr
    \/ /\ tok.s = "CURRENT" /\ tok.n = 0 /\ o.cur_ctx_id = 0
       /\ ~(slot_read /\ o.outer_scope_info # NoAddr)
    \/ tok.s \notin {"num", "CURRENT"}

\* the line kept the expression and the slot environment was not used for it
KeptAsIs(ev, i) ==
    /\ ev.resolved[i] = ev.line[i]
    /\ \E k \in DOMAIN ev.out : ev.out[k] = ev.line[i]
    /\ SCOPE_SLOT_ENV = ev.env

\* C25: a scope expression that does not resolve stays in the output as it
\* was written, is replaced by no id, and no entry of the slot environment
\* is read or written for it.
C25_UnresolvedKept ==
    hist.last.kind = "line" =>
        \A i \in DOMAIN hist.last.line :
            (hist.last.line[i].k = "Scope"
             /\ Unresolved(simpl, hist.last.line[i], SlotRead(hist.last.line, i)))
            => KeptAsIs(hist.last, i)

----------------------------------------------------------------------------
(* A second run in the same process (SpecAgain)                            *)

\* main (view8.py, lines 53-57) called once more by the process that ran it,
\* on the same file of top-level function blocks: parse_file stores each
\* record under the name it had (sfi_file_parser.py, line 567), and nothing
\* assigns the globals of simplify.py (lines 27-33)
main ==
    /\ Over /\ spc.n = 1
    /\ all_functions' = corpus
    /\ spc' = Where("decompile", 1, 2, <<>>)
    /\ simpl' = <<>>
    /\ hist' = [NoHistory EXCEPT !.first = <<Outcome>>]
    /\ UNCHANGED <<SCOPEINFO_PARENT, SCOPE_CTXID, SCOPEINFO_INIT, SCOPE_SLOT_ENV,
                   function_context_stack, idle>>

NextAgain == NextSimplify \/ main

SpecAgain == InitScope /\ [][NextAgain]_vars

\* a run is at its start: the registry is parsed and no function was visited
AtStart == spc.at = "decompile" /\ spc.k = 1

\* C26: every run starts with the scope parent table, the scope-id table, the
\* initialised flag, the slot environment, the pushback flag and the
\* literal-array table as they are when the modules are loaded, and the second
\* run on the same input leaves the registry keys and the scope ids of the first
C26_RunStartsReset ==
    /\ AtStart => /\ SCOPEINFO_PARENT = <<>> /\ SCOPE_CTXID = <<>> /\ ~SCOPEINFO_INIT
                  /\ SCOPE_SLOT_ENV = <<>>
                  /\ ~repeat_last_line /\ FIXED_ARRAYS = <<>>
    /\ (Over /\ spc.n = 2) => /\ Outcome.keys = hist.first[1].keys
                              /\ Outcome.ids = hist.first[1].ids

----------------------------------------------------------------------------
(* Termination of the reconstruction (SpecIf)                              *)

\* A handler is one step of convert, and a loop of a handler that never ends
\* leaves convert inside that step for ever: the walk of
\* get_last_if_in_statement (lines 358-383) comes back to an edge it has
\* visited, which LastIf reports and Dispatch records as the position "hung".
Hung == pc.at = "hung"

\* C27: the reconstruction of every function ends, also when conditional edges
\* point backward and their endpoints form a cycle: no walk along chained
\* conditional edges, case chains or IfJSReceiver spans goes on for ever
C27_Terminates == ~Hung

----------------------------------------------------------------------------
(* The final output of a function (SpecBlocks)                             *)

\* the line at place j is in the output and reads the register by its name
KeepsRead(code, j, reg) == code[j].visible /\ Reads(code[j].decompiled, reg)
\* the place of the assignment to the register that is nearest before line j
\* (0: none)
ReachingAssignment(code, j, reg) ==
    IF Assignments(code, reg, 1, j - 1) = {} THEN 0
    ELSE SetMax(Assignments(code, reg, 1, j - 1))

\* C28: in the final output of a function, when a line reads a register by
\* its bare name, the line of the nearest assignment to that register before
\* it is visible
C28_ReachingVisible ==
    Returned =>
        \A k \in DOMAIN all_functions : \A reg \in RegisterNames :
            \A j \in DOMAIN all_functions[k].code :
                (/\ KeepsRead(all_functions[k].code, j, reg)
                 /\ ReachingAssignment(all_functions[k].code, j, reg) # 0)
                => all_functions[k].code[ReachingAssignment(all_functions[k].code, j, reg)].visible

----------------------------------------------------------------------------
(* A nested function block whose parse fails (SpecParse)                   *)

\* C29: after the parse of a nested function block has failed, no line of
\* that block sets a field or the name of the enclosing function's record,
\* and the End marker of that block does not end the enclosing block
C29_FailedBlockIsolated == ~obs.foreign /\ ~obs.early

----------------------------------------------------------------------------
(* Register names in the slot environment (SpecSimplify)                   *)

\* the text names a register: rN, aN, ACCU or CASE_n
NamesRegister(text) == \E i \in DOMAIN text : text[i].k = "reg"

\* C30: no text recorded in the slot environment names a register, and no
\* line simplify_line returns for a read of a recorded slot is the line with
\* the recorded text rewritten by the substitution of registers
C30_SlotValuesRegisterFree ==
    /\ \A key \in DOMAIN SCOPE_SLOT_ENV : ~NamesRegister(SCOPE_SLOT_ENV[key])
    /\ hist.last.kind = "line" =>
          \A i \in DOMAIN hist.last.resolved :
              (/\ hist.last.resolved[i].k = "Scope" /\ hist.last.resolved[i].s = "num"
               /\ ~(i = 1 /\ MAssign(hist.last.resolved))
               /\ <<hist.last.resolved[i].n, hist.last.resolved[i].slot>> \in DOMAIN hist.last.env)
              => C16_ReadsReplaced

====
